---------------------------- MODULE Spec2Model ----------------------------
(***************************************************************************)
(* A state-machine model of the bond trading pipeline of                   *)
(* src/TradingSystem: the services, their keyed stores and the listener    *)
(* cascades that one input record drives.                                  *)
(*                                                                         *)
(* Conventions                                                             *)
(*   - a price is an integer number of 1/256 ticks (every price of the     *)
(*     feeds lies on that grid, where double arithmetic is exact);         *)
(*   - a quantity is an integer (C++ long); model quantities are small;    *)
(*   - a PV01 factor is an integer number of 1e-8 units;                   *)
(*   - a std::map is a function whose DOMAIN is the set of present keys;   *)
(*   - the program is single threaded and every callback is synchronous,   *)
(*     so one action is one call of a handler together with the whole      *)
(*     depth-first listener cascade it drives.  The cascade is computed by *)
(*     operators over a record of the stores ("s"), one operator per       *)
(*     method of the source, named after it.                               *)
(*   - "log" is the trace of the last operation: one entry per ProcessAdd  *)
(*     call and per connector Publish call, in call order, each carrying a *)
(*     copy of the argument as it was when the call was made.              *)
(***************************************************************************)
EXTENDS Integers, Sequences, FiniteSets, TLC

VARIABLES
    \* MarketDataService
    orderBooks,
    \* AlgoExecutionService
    algoCount, algoExecutions,
    \* ExecutionService
    executionOrders,
    \* TradeBookingService and TradeBookingServiceListener
    trades, tbCount,
    \* PositionService
    positions,
    \* RiskService
    pv01s,
    \* HistoricalDataService<Position>, <PV01>, <ExecutionOrder>
    histPosition, histRisk, histExecution,
    \* InquiryService, HistoricalDataService<Inquiry>
    inquirys, histInquiry,
    \* PricingService, AlgoStreamingService, StreamingService,
    \* HistoricalDataService<PriceStream>
    prices, asCount, algoStreams, priceStreams, histStreaming,
    \* GUIService::cur_time and the system clock, in milliseconds since the
    \* construction of the GUI service
    guiCurTime, clock,
    \* observation of the run: the last operation, its call trace, the
    \* number of calls each listener has received, the signed quantity
    \* delivered to PositionService per (product, book), operations so far
    lastOp, log, calls, delivered, steps,
    \* the feed that main is pumping, and the rows of the sink files, each
    \* row tagged with the number of the input record that caused it
    feed, sinks,
    \* a call of convertPrice: its argument and, once made, its result
    codec

tradingVars == <<orderBooks, algoCount, algoExecutions, executionOrders,
                 trades, tbCount, positions, pv01s,
                 histPosition, histRisk, histExecution>>
inquiryVars == <<inquirys, histInquiry>>
pricingVars == <<prices, asCount, algoStreams, priceStreams, histStreaming,
                 guiCurTime, clock>>
ghostVars == <<lastOp, log, calls, delivered, steps>>
mainVars == <<feed, sinks>>
vars == <<tradingVars, inquiryVars, pricingVars, ghostVars, mainVars, codec>>

-----------------------------------------------------------------------------
(* Bounds of the model *)

\* records of the market data feed in one run
MaxBooks == 2
\* execution orders delivered to the execution listener in one run
MaxOrders == 6
\* trades (feed records and executions) booked in one run
MaxTrades == 3
\* inquiry records and inquiry service calls in one run
MaxInquiries == 3
\* records of the prices feed in one run
MaxPrices == 3
\* trade records and GetBucketedRisk calls in one run
MaxRiskOps == 3
\* prices and execution orders delivered in one run
MaxDeliveries == 3
\* records read by main from all feeds in one run
MaxRecords == 2
\* the largest whole part of the prices converted, next to 999
MaxWhole == 100
\* market data records and AggregateDepth calls in one run
MaxDepthOps == 3
\* calls of GetBestBidOffer in one run
MaxBestCalls == 1
\* the longest stack of the books GetBestBidOffer is called on
MaxStack == 3
\* Price events of the GUI service in one run
MaxGuiEvents == 2
\* calls of PublishThrottledPrice in one run
MaxThrottleCalls == 3
\* execution orders and feed trades booked in one run
MaxBookings == 2
\* records read in one run of the feeds that may name an unknown product
MaxFatalRecords == 3
\* snapshots of the market data feed read in one run
MaxSnapshots == 2
\* books and prices that reach the two algo services in one run
MaxSharedEvents == 3
\* lines of the prices feed read as text in one run
MaxQuoteLines == 2

(* Program constants *)

\* MarketDataService::bookDepth
bookDepth == 5
\* the spread gate of AlgoExecuteOrder, 1.0 / 128.0, in 1/256 ticks
TightSpread == 2
\* GUIService::throttle, in milliseconds
throttle == 300

Catalog == {"9128283H1", "9128283L2", "912828M80", "9128283J7",
            "9128283F5", "912810TW8", "912810RZ3"}

\* getPV01: the static PV01 table, in 1e-8 units; 0 for any other product
getPV01(cusip) ==
    CASE cusip = "9128283H1" -> 1948992
      [] cusip = "9128283L2" -> 2865304
      [] cusip = "912828M80" -> 4581119
      [] cusip = "9128283J7" -> 6127718
      [] cusip = "9128283F5" -> 8161449
      [] cusip = "912810RZ3" -> 15013155
      [] OTHER -> 0

-----------------------------------------------------------------------------
(* std::map and vector helpers *)

EmptyMap == [k \in {} |-> 0]
Has(m, k) == k \in DOMAIN m
\* the insertion that forgets every other key
MapPut_alone(m, k, v) == (k :> v)

\* m[k] = v, and insert of an absent key
MapPut(m, k, v) == (k :> v) @@ m
MapErase(m, k) == [x \in (DOMAIN m) \ {k} |-> m[x]]

RECURSIVE SumSeq(_)
SumSeq(q) == IF q = <<>> THEN 0 ELSE Head(q) + SumSeq(Tail(q))

RECURSIVE SumOver(_, _)
\* the sum of f[x] over the finite set S
SumOver(f, S) ==
    IF S = {} THEN 0
    ELSE LET x == CHOOSE y \in S : TRUE IN f[x] + SumOver(f, S \ {x})

\* one call-trace entry: the callee and a copy of its argument
Call(at, data) == [at |-> at, data |-> data]
Logged(s, at, data) == [s EXCEPT !.log = Append(@, Call(at, data))]


-----------------------------------------------------------------------------
(* Data types *)

\* Order(price, quantity, side)
Order(price, quantity, side) ==
    [price |-> price, quantity |-> quantity, side |-> side]

\* OrderBook(product, bidStack, offerStack)
OrderBook(product, bidStack, offerStack) ==
    [product |-> product, bidStack |-> bidStack, offerStack |-> offerStack]

\* ExecutionOrder(product, side, orderId, orderType, price, visible, hidden,
\* parentOrderId, isChildOrder)
ExecutionOrder(product, side, orderId, orderType, price, visibleQuantity, hiddenQuantity, parentOrderId, isChildOrder) ==
    [product |-> product, side |-> side, orderId |-> orderId,
     orderType |-> orderType, price |-> price,
     visibleQuantity |-> visibleQuantity, hiddenQuantity |-> hiddenQuantity,
     parentOrderId |-> parentOrderId, isChildOrder |-> isChildOrder]

\* AlgoExecution(executionOrder, market)
AlgoExecution(executionOrder, market) ==
    [executionOrder |-> executionOrder, market |-> market]

\* Trade(product, tradeId, price, book, quantity, side)
Trade(product, tradeId, price, book, quantity, side) ==
    [product |-> product, tradeId |-> tradeId, price |-> price,
     book |-> book, quantity |-> quantity, side |-> side]

\* Position(product): no book yet
Position(product) == [product |-> product, bookpositions |-> EmptyMap]

\* PV01(product, pv01, quantity)
PV01(product, pv01, quantity) ==
    [product |-> product, pv01 |-> pv01, quantity |-> quantity]

-----------------------------------------------------------------------------
(* HistoricalDataService *)

\* the store that keeps the first record of a key
PersistData_insertOnly(histdatas, persistKey, data) ==
    IF ~Has(histdatas, persistKey)
    THEN MapPut(histdatas, persistKey, data)
    ELSE histdatas

\* PersistData on the store "store" (a field name of s is not first class,
\* so the three stores have one operator each below): insert or overwrite,
\* then connector->Publish(data), which appends one row to the kind's file
PersistData(histdatas, persistKey, data) ==
    IF ~Has(histdatas, persistKey)
    THEN MapPut(histdatas, persistKey, data)
    ELSE [histdatas EXCEPT ![persistKey] = data]

\* HistoricalDataServiceListener<PV01>::ProcessAdd
HistRiskProcessAdd(s, data) ==
    LET s1 == [s EXCEPT !.histRisk = PersistData(@, data.product, data)]
    IN Logged(s1, "risk.txt", data)

\* HistoricalDataServiceListener<Position>::ProcessAdd
HistPositionProcessAdd(s, data) ==
    LET s1 == [s EXCEPT !.histPosition = PersistData(@, data.product, data)]
    IN Logged(s1, "positions.txt", data)

\* HistoricalDataServiceListener<ExecutionOrder>::ProcessAdd
HistExecutionProcessAdd(s, data) ==
    LET s1 == [s EXCEPT !.histExecution = PersistData(@, data.product, data)]
    IN Logged(s1, "executions.txt", data)

-----------------------------------------------------------------------------
(* RiskService *)

\* PV01::AddQuantity
AddQuantity(pv01, quantity) == [pv01 EXCEPT !.quantity = @ + quantity]

\* the aggregate that counts one book only
GetAggregatePosition_oneBook(position) ==
    LET book == CHOOSE b \in DOMAIN position.bookpositions : TRUE
    IN position.bookpositions[book]

\* Position::GetAggregatePosition
GetAggregatePosition(position) ==
    SumOver(position.bookpositions, DOMAIN position.bookpositions)

\* RiskService::AddPosition passing the stored record to its listeners
RiskAddPosition_stored(s, position) ==
    LET productId == position.product
        quantity == GetAggregatePosition(position)
        pv01Val == getPV01(productId)
        pv01 == PV01(productId, pv01Val, quantity)
        s1 == IF Has(s.pv01s, productId)
              THEN [s EXCEPT !.pv01s[productId] = AddQuantity(@, quantity)]
              ELSE [s EXCEPT !.pv01s = MapPut(@, productId, pv01)]
        s2 == Logged(s1, "HistoricalRiskListener", s1.pv01s[productId])
    IN HistRiskProcessAdd(s2, s1.pv01s[productId])

\* RiskService::AddPosition and the cascade of its listeners
\* (main.cpp: the historical risk listener)
RiskAddPosition(s, position) ==
    LET productId == position.product
        quantity == GetAggregatePosition(position)
        pv01Val == getPV01(productId)
        pv01 == PV01(productId, pv01Val, quantity)
        s1 == IF Has(s.pv01s, productId)
              THEN [s EXCEPT !.pv01s[productId] = AddQuantity(@, quantity)]
              ELSE [s EXCEPT !.pv01s = MapPut(@, productId, pv01)]
        s2 == Logged(s1, "HistoricalRiskListener", pv01)
    IN HistRiskProcessAdd(s2, pv01)

-----------------------------------------------------------------------------
(* PositionService *)

\* Position::AddPosition
PositionAddPosition(position, book, quantity) ==
    IF ~Has(position.bookpositions, book)
    THEN [position EXCEPT !.bookpositions = MapPut(@, book, quantity)]
    ELSE [position EXCEPT !.bookpositions[book] = @ + quantity]

\* the quantity of a trade taken unsigned for both sides
SignedQuantity_unsigned(trade) == trade.quantity

\* the signed quantity of a trade: BUY adds, SELL subtracts
SignedQuantity(trade) ==
    IF trade.side = "BUY" THEN trade.quantity ELSE -trade.quantity

\* PositionService::AddTrade and the cascade of its listeners
\* (main.cpp: the risk listener, then the historical position listener)
PositionAddTrade(s, trade) ==
    LET productId == trade.product
        book == trade.book
        quantity == SignedQuantity(trade)
        s1 == IF ~Has(s.positions, productId)
              THEN [s EXCEPT !.positions =
                      MapPut(@, productId,
                             PositionAddPosition(Position(productId), book, quantity))]
              ELSE [s EXCEPT !.positions[productId] =
                      PositionAddPosition(@, book, quantity)]
        s2 == Logged(s1, "RiskServiceListener", s1.positions[productId])
        s3 == RiskAddPosition(s2, s2.positions[productId])
        s4 == Logged(s3, "HistoricalPositionListener", s3.positions[productId])
    IN HistPositionProcessAdd(s4, s4.positions[productId])

-----------------------------------------------------------------------------
(* TradeBookingService *)

\* TradeBookingService::OnMessage and the cascade of its listeners
\* (main.cpp: the position listener)
TradeBookingOnMessage_once(s, data) ==
    LET key == data.tradeId
    IN IF Has(s.trades, key)
       THEN [s EXCEPT !.trades[key] = data]
       ELSE PositionAddTrade(
              Logged([s EXCEPT !.trades = MapPut(@, key, data)],
                     "PositionServiceListener", data), data)

TradeBookingOnMessage(s, data) ==
    LET key == data.tradeId
        s1 == IF Has(s.trades, key)
              THEN [s EXCEPT !.trades[key] = data]
              ELSE [s EXCEPT !.trades = MapPut(@, key, data)]
        s2 == Logged(s1, "PositionServiceListener", data)
    IN PositionAddTrade(s2, data)

\* the cycle of books taken one step early
CycleBook_early(count) ==
    IF count % 3 = 0 THEN "TRSY2"
    ELSE IF count % 3 = 1 THEN "TRSY3"
    ELSE "TRSY1"

\* the book of the count-th execution
CycleBook(count) ==
    IF count % 3 = 0 THEN "TRSY1"
    ELSE IF count % 3 = 1 THEN "TRSY2"
    ELSE "TRSY3"

\* the listener booking the visible quantity alone
TradeBookingListenerProcessAdd_visibleOnly(s, data) ==
    LET quantity == data.visibleQuantity
        side == IF data.side = "BID" THEN "BUY" ELSE "SELL"
        count == s.tbCount + 1
        book == CycleBook(count)
        trade == Trade(data.product, data.orderId, data.price, book, quantity, side)
    IN TradeBookingOnMessage([s EXCEPT !.tbCount = count], trade)

\* TradeBookingServiceListener::ProcessAdd
TradeBookingListenerProcessAdd(s, data) ==
    LET quantity == data.visibleQuantity + data.hiddenQuantity
        side == IF data.side = "BID" THEN "BUY" ELSE "SELL"
        count == s.tbCount + 1
        book == CycleBook(count)
        trade == Trade(data.product, data.orderId, data.price, book, quantity, side)
    IN TradeBookingOnMessage([s EXCEPT !.tbCount = count], trade)

-----------------------------------------------------------------------------
(* ExecutionService *)

\* AddExecutionOrder calling the historical execution listener first
AddExecutionOrder_historicalFirst(s, algoExecution) ==
    LET executionOrder == algoExecution.executionOrder
        orderId == executionOrder.orderId
        s1 == [s EXCEPT !.executionOrders =
                 MapPut(IF Has(@, orderId) THEN MapErase(@, orderId) ELSE @,
                        orderId, executionOrder)]
        s2 == Logged(s1, "HistoricalExecutionListener", executionOrder)
        s3 == HistExecutionProcessAdd(s2, executionOrder)
        s4 == Logged(s3, "TradeBookingServiceListener", executionOrder)
    IN TradeBookingListenerProcessAdd(s4, executionOrder)

\* ExecutionService::AddExecutionOrder and the cascade of its listeners
\* (main.cpp: the trade booking listener, then the historical execution
\* listener)
AddExecutionOrder(s, algoExecution) ==
    LET executionOrder == algoExecution.executionOrder
        orderId == executionOrder.orderId
        s1 == [s EXCEPT !.executionOrders =
                 MapPut(IF Has(@, orderId) THEN MapErase(@, orderId) ELSE @,
                        orderId, executionOrder)]
        s2 == Logged(s1, "TradeBookingServiceListener", executionOrder)
        s3 == TradeBookingListenerProcessAdd(s2, executionOrder)
        s4 == Logged(s3, "HistoricalExecutionListener", executionOrder)
    IN HistExecutionProcessAdd(s4, executionOrder)

\* ExecutionServiceListener::ProcessAdd: AddExecutionOrder, then
\* ExecuteOrder, whose connector prints the order and its market
ExecutionListenerProcessAdd(s, data) ==
    LET s1 == AddExecutionOrder(s, data)
    IN Logged(s1, "ExecutionServiceConnector", data)

-----------------------------------------------------------------------------
(* MarketDataService: the order book *)

RECURSIVE FirstMax_last(_, _, _)
\* the index of the last greatest element
FirstMax_last(q, i, b) ==
    IF i > Len(q) THEN b
    ELSE FirstMax_last(q, i + 1, IF q[b].price <= q[i].price THEN i ELSE b)

RECURSIVE FirstMax(_, _, _)
\* std::max_element on prices: the index of the first greatest element of
\* the non-empty sequence q, scanning from index i with best so far b
FirstMax(q, i, b) ==
    IF i > Len(q) THEN b
    ELSE FirstMax(q, i + 1, IF q[b].price < q[i].price THEN i ELSE b)

RECURSIVE FirstMin(_, _, _)
\* std::min_element on prices: the index of the first least element
FirstMin(q, i, b) ==
    IF i > Len(q) THEN b
    ELSE FirstMin(q, i + 1, IF q[i].price < q[b].price THEN i ELSE b)

\* OrderBook::GetBestBidOffer, for non-empty stacks
GetBestBidOffer(orderBook) ==
    [bidOrder |-> orderBook.bidStack[FirstMax(orderBook.bidStack, 2, 1)],
     offerOrder |-> orderBook.offerStack[FirstMin(orderBook.offerStack, 2, 1)]]

-----------------------------------------------------------------------------
(* AlgoExecutionService *)

\* The condition of the spread gate
IsTight(bidPrice, offerPrice) == offerPrice - bidPrice <= TightSpread

\* the sides of the two parities exchanged
AlgoSide_swapped(count) == IF count % 2 = 0 THEN "OFFER" ELSE "BID"

\* The side chosen for a tight book
AlgoSide(count) == IF count % 2 = 0 THEN "BID" ELSE "OFFER"

\* AlgoExecuteOrder with the counter going up only for a tight book
AlgoExecuteOrder_gatedCount(s, orderBook, orderId, parentOrderId, uninit) ==
    LET product == orderBook.product
        key == product
        bidOffer == GetBestBidOffer(orderBook)
        bid == bidOffer.bidOrder
        offer == bidOffer.offerOrder
        bidPrice == bid.price
        offerPrice == offer.price
        bidQuantity == bid.quantity
        offerQuantity == offer.quantity
        gate == IsTight(bidPrice, offerPrice)
        side == IF gate THEN AlgoSide(s.algoCount) ELSE uninit.side
        price == IF gate
                 THEN (IF side = "BID" THEN offerPrice ELSE bidPrice)
                 ELSE uninit.price
        quantity == IF gate
                    THEN (IF side = "BID" THEN bidQuantity ELSE offerQuantity)
                    ELSE uninit.quantity
        s1 == IF gate THEN [s EXCEPT !.algoCount = @ + 1] ELSE s
        visibleQuantity == quantity
        hiddenQuantity == 0
        isChildOrder == FALSE
        executionOrder == ExecutionOrder(product, side, orderId, "MARKET", price,
                                         visibleQuantity, hiddenQuantity,
                                         parentOrderId, isChildOrder)
        algoExecution == AlgoExecution(executionOrder, "BROKERTEC")
        s2 == [s1 EXCEPT !.algoExecutions =
                 MapPut(IF Has(@, key) THEN MapErase(@, key) ELSE @,
                        key, algoExecution)]
        s3 == Logged(s2, "ExecutionServiceListener", algoExecution)
    IN ExecutionListenerProcessAdd(s3, algoExecution)

\* AlgoExecutionService::AlgoExecuteOrder and the cascade of its listeners
\* (main.cpp: the execution listener).  orderId and parentOrderId are the
\* results of GenerateRandomId.  side, price and quantity are locals that
\* are assigned only under the spread gate and read unconditionally: for a
\* wide book the values read are those of uninit, any values at all.
AlgoExecuteOrder(s, orderBook, orderId, parentOrderId, uninit) ==
    LET product == orderBook.product
        key == product
        bidOffer == GetBestBidOffer(orderBook)
        bid == bidOffer.bidOrder
        offer == bidOffer.offerOrder
        bidPrice == bid.price
        offerPrice == offer.price
        bidQuantity == bid.quantity
        offerQuantity == offer.quantity
        gate == IsTight(bidPrice, offerPrice)
        side == IF gate THEN AlgoSide(s.algoCount) ELSE uninit.side
        price == IF gate
                 THEN (IF side = "BID" THEN offerPrice ELSE bidPrice)
                 ELSE uninit.price
        quantity == IF gate
                    THEN (IF side = "BID" THEN bidQuantity ELSE offerQuantity)
                    ELSE uninit.quantity
        s1 == [s EXCEPT !.algoCount = @ + 1]
        visibleQuantity == quantity
        hiddenQuantity == 0
        isChildOrder == FALSE
        executionOrder == ExecutionOrder(product, side, orderId, "MARKET", price,
                                         visibleQuantity, hiddenQuantity,
                                         parentOrderId, isChildOrder)
        algoExecution == AlgoExecution(executionOrder, "BROKERTEC")
        s2 == [s1 EXCEPT !.algoExecutions =
                 MapPut(IF Has(@, key) THEN MapErase(@, key) ELSE @,
                        key, algoExecution)]
        s3 == Logged(s2, "ExecutionServiceListener", algoExecution)
    IN ExecutionListenerProcessAdd(s3, algoExecution)

-----------------------------------------------------------------------------
(* MarketDataService *)

\* a GetData that hands out an empty book every time
MarketDataGetData_fresh(books, key) ==
    MapPut(books, key, OrderBook(key, <<>>, <<>>))

\* MarketDataService::GetData: the product's book, created empty when absent
MarketDataGetData(books, key) ==
    IF ~Has(books, key) THEN MapPut(books, key, OrderBook(key, <<>>, <<>>))
    ELSE books

\* the prices of a stack
PricesOf(stack) == {stack[i].price : i \in 1..Len(stack)}

\* the total quantity of a stack at one price
QuantityAt(stack, price) ==
    SumSeq([i \in 1..Len(stack) |->
              IF stack[i].price = price THEN stack[i].quantity ELSE 0])

\* The iteration orders of an unordered_map<double, long> holding the keys
\* of the set S: unspecified, so any enumeration of S without repetition
IterationOrders(S) ==
    {q \in [1..Cardinality(S) -> S] :
        \A i, j \in 1..Cardinality(S) : q[i] = q[j] => i = j}

\* the side with the last quantity met at each price instead of the sum
AggregateStack_lastQuantity(stack, order, side) ==
    [i \in 1..Len(order) |->
       LET last == CHOOSE k \in 1..Len(stack) :
                     /\ stack[k].price = order[i]
                     /\ \A j \in (k + 1)..Len(stack) : stack[j].price # order[i]
       IN Order(order[i], stack[last].quantity, side)]

\* One side of MarketDataService::AggregateDepth: the quantities summed
\* per price, one order per price, in the map's iteration order
AggregateStack(stack, order, side) ==
    [i \in 1..Len(order) |-> Order(order[i], QuantityAt(stack, order[i]), side)]

\* MarketDataService::OnMessage and the cascade of its listeners
\* (main.cpp: the algo execution listener)
MarketDataOnMessage(s, data, orderId, parentOrderId, uninit) ==
    LET key == data.product
        s1 == [s EXCEPT !.orderBooks =
                 MapPut(IF Has(@, key) THEN MapErase(@, key) ELSE @, key, data)]
        s2 == Logged(s1, "AlgoExecutionServiceListener", data)
    IN AlgoExecuteOrder(s2, data, orderId, parentOrderId, uninit)

RECURSIVE PushRows(_, _, _)
\* the loop of MarketDataConnector::Subscribe over the bookDepth levels of
\* one record: push one bid and one offer per level
PushRows(orderBook, rows, level) ==
    IF level > bookDepth THEN orderBook
    ELSE PushRows(
           [orderBook EXCEPT
              !.bidStack = Append(@, Order(rows[level].bid, rows[level].bidSize, "BID")),
              !.offerStack = Append(@, Order(rows[level].offer, rows[level].offerSize, "OFFER"))],
           rows, level + 1)

\* One record of MarketDataConnector::Subscribe: GetData, the pushes,
\* AggregateDepth (which replaces the stored book) and OnMessage.
\* bidOrder and offerOrder are the iteration orders of the two maps.
MarketDataSubscribeRecord(s, productId, rows, bidOrder, offerOrder, orderId, parentOrderId, uninit) ==
    LET books1 == MarketDataGetData(s.orderBooks, productId)
        pushed == PushRows(books1[productId], rows, 1)
        aggOrderBook == OrderBook(pushed.product,
                                  AggregateStack(pushed.bidStack, bidOrder, "BID"),
                                  AggregateStack(pushed.offerStack, offerOrder, "OFFER"))
        s1 == [s EXCEPT !.orderBooks = [books1 EXCEPT ![productId] = aggOrderBook]]
    IN MarketDataOnMessage(s1, aggOrderBook, orderId, parentOrderId, uninit)

-----------------------------------------------------------------------------
(* InquiryService *)

\* Inquiry(inquiryId, product, side, quantity, price, state)
Inquiry(inquiryId, product, side, quantity, price, state) ==
    [inquiryId |-> inquiryId, product |-> product, side |-> side,
     quantity |-> quantity, price |-> price, state |-> state]

\* a default inquiry that starts out REJECTED
DefaultInquiry_rejected == Inquiry("", "", "BUY", 0, 0, "REJECTED")

\* Inquiry(): what map::operator[] inserts for an absent key, every member
\* value-initialized (the first enumerators, zero, empty strings)
DefaultInquiry == Inquiry("", "", "BUY", 0, 0, "RECEIVED")

\* HistoricalDataServiceListener<Inquiry>::ProcessAdd: the persist key is
\* the product identifier
HistInquiryProcessAdd(s, data) ==
    LET s1 == [s EXCEPT !.histInquiry = PersistData(@, data.product, data)]
    IN Logged(s1, "aggregatedinquiries.txt", data)

\* the listener loop of InquiryService (main.cpp: the historical inquiry
\* listener)
InquiryNotify(s, data) ==
    HistInquiryProcessAdd(Logged(s, "HistoricalInquiryListener", data), data)

\* the store update that keeps every inquiry, DONE or not
InquiryUpdateStore_keep(stored, d) == MapPut(stored, d.inquiryId, d)

\* the store update of InquiryService::OnMessage: a DONE inquiry is erased,
\* any other is assigned under its identifier
InquiryUpdateStore(stored, d) ==
    IF d.state = "DONE" THEN MapErase(stored, d.inquiryId)
    ELSE MapPut(stored, d.inquiryId, d)

RECURSIVE InquiryOnMessage(_, _)
RECURSIVE InquiryPublish(_, _)

\* the calls of a nested call tree, each one OnMessage frame deeper
Nested(entries) ==
    [i \in 1..Len(entries) |-> [entries[i] EXCEPT !.depth = @ + 1]]

\* an OnMessage that dispatches the inquiry again once it has set it to DONE
InquiryOnMessage_redispatch(s, data) ==
    LET state == data.state
        inquiryId == data.inquiryId
        r1 == IF state = "RECEIVED"
              THEN InquiryPublish(s, data)
              ELSE IF state = "QUOTED"
              THEN InquiryOnMessage(s, [data EXCEPT !.state = "DONE"])
              ELSE [s |-> s, data |-> data, entries |-> <<>>]
        d == r1.data
        s2 == [r1.s EXCEPT !.inquirys = InquiryUpdateStore(@, d)]
    IN [s |-> InquiryNotify(s2, d), data |-> d,
        entries |-> <<[call |-> "OnMessage", state |-> state, depth |-> 1]>>
                      \o Nested(r1.entries)]

\* InquiryService::OnMessage.  data is a reference that OnMessage and
\* Publish write through, so the result carries the stores (s) and the
\* referenced inquiry as the call leaves it (data); entries lists the calls
\* of OnMessage and Publish made, this one first, each with the state of
\* the inquiry on entry and the number of OnMessage frames on the stack.
InquiryOnMessage(s, data) ==
    LET state == data.state
        inquiryId == data.inquiryId
        r1 == IF state = "RECEIVED"
              THEN InquiryPublish(s, data)
              ELSE IF state = "QUOTED"
              THEN LET done == [data EXCEPT !.state = "DONE"]
                   IN [s |-> [s EXCEPT !.inquirys =
                                MapPut(IF Has(@, inquiryId)
                                       THEN MapErase(@, inquiryId) ELSE @,
                                       inquiryId, done)],
                       data |-> done, entries |-> <<>>]
              ELSE [s |-> s, data |-> data, entries |-> <<>>]
        d == r1.data
        s2 == [r1.s EXCEPT !.inquirys = InquiryUpdateStore(@, d)]
    IN [s |-> InquiryNotify(s2, d), data |-> d,
        entries |-> <<[call |-> "OnMessage", state |-> state, depth |-> 1]>>
                      \o Nested(r1.entries)]

\* the Publish of a subscribe-only connector, which does nothing
InquiryPublish_subscribeOnly(s, data) == [s |-> s, data |-> data, entries |-> <<>>]

\* InquiryConnector::Publish
InquiryPublish(s, data) ==
    IF data.state = "RECEIVED"
    THEN LET r1 == InquiryOnMessage(s, [data EXCEPT !.state = "QUOTED"])
             r2 == InquiryOnMessage(r1.s, [r1.data EXCEPT !.state = "DONE"])
         IN [s |-> r2.s, data |-> r2.data,
             entries |-> <<[call |-> "Publish", state |-> data.state, depth |-> 0]>>
                           \o r1.entries \o r2.entries]
    ELSE [s |-> s, data |-> data,
          entries |-> <<[call |-> "Publish", state |-> data.state, depth |-> 0]>>]

\* the parse that takes an unknown token for RECEIVED
ParseInquiryState_received(token) ==
    IF token = "QUOTED" THEN "QUOTED"
    ELSE IF token = "DONE" THEN "DONE"
    ELSE IF token = "REJECTED" THEN "REJECTED"
    ELSE "RECEIVED"

\* the state of a record of the inquiries feed, from its token
ParseInquiryState(token) ==
    IF token = "RECEIVED" THEN "RECEIVED"
    ELSE IF token = "QUOTED" THEN "QUOTED"
    ELSE IF token = "DONE" THEN "DONE"
    ELSE IF token = "REJECTED" THEN "REJECTED"
    ELSE "CUSTOMER_REJECTED"

\* One record of InquiryConnector::Subscribe
InquirySubscribeRecord(s, inquiryId, productId, sideToken, quantity, price, token) ==
    LET side == IF sideToken = "BUY" THEN "BUY" ELSE "SELL"
        state == ParseInquiryState(token)
        inquiry == Inquiry(inquiryId, productId, side, quantity, price, state)
    IN InquiryOnMessage(s, inquiry).s

\* the lookup that puts a default inquiry under the key whatever it holds
InquiryGetData_reset(s, key) ==
    [s EXCEPT !.inquirys = MapPut(@, key, DefaultInquiry)]

\* InquiryService::GetData: inquirys[_key]
InquiryGetData(s, key) ==
    IF Has(s.inquirys, key) THEN s
    ELSE [s EXCEPT !.inquirys = MapPut(@, key, DefaultInquiry)]

\* the quote sent whatever the state of the inquiry
SendQuote_anyState(s, inquiryId, price) ==
    LET s1 == InquiryGetData(s, inquiryId)
        s2 == [s1 EXCEPT !.inquirys[inquiryId].price = price]
    IN InquiryNotify(s2, s2.inquirys[inquiryId])

\* InquiryService::SendQuote
SendQuote(s, inquiryId, price) ==
    LET s1 == InquiryGetData(s, inquiryId)
    IN IF s1.inquirys[inquiryId].state = "RECEIVED"
       THEN LET s2 == [s1 EXCEPT !.inquirys[inquiryId].price = price]
            IN InquiryNotify(s2, s2.inquirys[inquiryId])
       ELSE s1

\* the rejection that also notifies the listeners
RejectInquiry_notify(s, inquiryId) ==
    LET s1 == InquiryGetData(s, inquiryId)
        s2 == [s1 EXCEPT !.inquirys[inquiryId].state = "REJECTED"]
    IN InquiryNotify(s2, s2.inquirys[inquiryId])

\* InquiryService::RejectInquiry
RejectInquiry(s, inquiryId) ==
    LET s1 == InquiryGetData(s, inquiryId)
    IN [s1 EXCEPT !.inquirys[inquiryId].state = "REJECTED"]

-----------------------------------------------------------------------------
(* PricingService, AlgoStreamingService, StreamingService, GUIService *)

\* Price(product, mid, bidOfferSpread).  The mid of two prices of the 1/256
\* grid lies on the 1/512 grid: mid is kept in 1/512 ticks, the spread in
\* 1/256 ticks.
Price(product, mid, bidOfferSpread) ==
    [product |-> product, mid |-> mid, bidOfferSpread |-> bidOfferSpread]

\* PriceStreamOrder(price, visibleQuantity, hiddenQuantity, side)
PriceStreamOrder(price, visibleQuantity, hiddenQuantity, side) ==
    [price |-> price, visibleQuantity |-> visibleQuantity,
     hiddenQuantity |-> hiddenQuantity, side |-> side]

\* PriceStream(product, bidOrder, offerOrder)
PriceStream(product, bidOrder, offerOrder) ==
    [product |-> product, bidOrder |-> bidOrder, offerOrder |-> offerOrder]

\* AlgoStream(priceStream)
AlgoStream(priceStream) == [priceStream |-> priceStream]

\* HistoricalDataServiceListener<PriceStream>::ProcessAdd
HistStreamingProcessAdd(s, data) ==
    LET s1 == [s EXCEPT !.histStreaming = PersistData(@, data.product, data)]
    IN Logged(s1, "streaming.txt", data)

\* StreamingService::AddPriceStream and the cascade of its listeners
\* (main.cpp: the historical streaming listener)
AddPriceStream(s, algoStream) ==
    LET priceStream == algoStream.priceStream
        key == priceStream.product
        s1 == [s EXCEPT !.priceStreams =
                 MapPut(IF Has(@, key) THEN MapErase(@, key) ELSE @,
                        key, priceStream)]
        s2 == Logged(s1, "HistoricalStreamingListener", priceStream)
    IN HistStreamingProcessAdd(s2, priceStream)

\* StreamingServiceListener::ProcessAdd: AddPriceStream, then PublishPrice,
\* whose connector prints the stream
StreamingListenerProcessAdd(s, data) ==
    LET s1 == AddPriceStream(s, data)
    IN Logged(s1, "StreamingServiceConnector", data.priceStream)

\* the quantities taken from the counter after its increment
PublishAlgoStream_countFirst(s, price) ==
    LET product == price.product
        key == product
        mid == price.mid
        spread == price.bidOfferSpread
        bidPrice == (mid - spread) \div 2
        offerPrice == (mid + spread) \div 2
        visibleQuantity == IF (s.asCount + 1) % 2 = 0 THEN 1000000 ELSE 2000000
        hiddenQuantity == visibleQuantity * 2
        s1 == [s EXCEPT !.asCount = @ + 1]
        bidOrder == PriceStreamOrder(bidPrice, visibleQuantity, hiddenQuantity, "BID")
        offerOrder == PriceStreamOrder(offerPrice, visibleQuantity, hiddenQuantity, "OFFER")
        priceStream == PriceStream(product, bidOrder, offerOrder)
        algoStream == AlgoStream(priceStream)
        s2 == [s1 EXCEPT !.algoStreams =
                 MapPut(IF Has(@, key) THEN MapErase(@, key) ELSE @,
                        key, algoStream)]
        s3 == Logged(s2, "StreamingServiceListener", algoStream)
    IN StreamingListenerProcessAdd(s3, algoStream)

\* AlgoStreamingService::PublishAlgoStream and the cascade of its listeners
\* (main.cpp: the streaming listener).  Prices in 1/256 ticks: mid - spread/2
\* and mid + spread/2 with mid in 1/512 ticks.
PublishAlgoStream(s, price) ==
    LET product == price.product
        key == product
        mid == price.mid
        spread == price.bidOfferSpread
        bidPrice == (mid - spread) \div 2
        offerPrice == (mid + spread) \div 2
        visibleQuantity == IF s.asCount % 2 = 0 THEN 1000000 ELSE 2000000
        hiddenQuantity == visibleQuantity * 2
        s1 == [s EXCEPT !.asCount = @ + 1]
        bidOrder == PriceStreamOrder(bidPrice, visibleQuantity, hiddenQuantity, "BID")
        offerOrder == PriceStreamOrder(offerPrice, visibleQuantity, hiddenQuantity, "OFFER")
        priceStream == PriceStream(product, bidOrder, offerOrder)
        algoStream == AlgoStream(priceStream)
        s2 == [s1 EXCEPT !.algoStreams =
                 MapPut(IF Has(@, key) THEN MapErase(@, key) ELSE @,
                        key, algoStream)]
        s3 == Logged(s2, "StreamingServiceListener", algoStream)
    IN StreamingListenerProcessAdd(s3, algoStream)

\* the throttle that emits without moving cur_time
PublishThrottledPrice_keepTime(s, price, now) ==
    LET diff == now - s.guiCurTime
    IN IF diff > throttle
       THEN Logged(s, "gui.txt", [time |-> now, price |-> price])
       ELSE s

\* GUIService::PublishThrottledPrice at clock value now
PublishThrottledPrice(s, price, now) ==
    LET diff == now - s.guiCurTime
    IN IF diff > throttle
       THEN Logged([s EXCEPT !.guiCurTime = now], "gui.txt",
                   [time |-> now, price |-> price])
       ELSE s

\* GUIService::OnMessage: an empty body
GUIOnMessage(s, data) == s

\* GUIServiceListener::ProcessAdd
GUIListenerProcessAdd(s, price) == GUIOnMessage(s, price)

\* PricingService::OnMessage and the cascade of its listeners (main.cpp:
\* the algo streaming listener, then the GUI listener)
PricingOnMessage(s, data) ==
    LET key == data.product
        s1 == [s EXCEPT !.prices =
                 MapPut(IF Has(@, key) THEN MapErase(@, key) ELSE @, key, data)]
        s2 == Logged(s1, "AlgoStreamingServiceListener", data)
        s3 == PublishAlgoStream(s2, data)
        s4 == Logged(s3, "GUIServiceListener", data)
    IN GUIListenerProcessAdd(s4, data)

\* the record's mid taken for its bid
PricingSubscribeRecord_midIsBid(s, productId, bid, ask) ==
    PricingOnMessage(s, Price(productId, bid + bid, ask - bid))

\* One record of PricingConnector::Subscribe, its bid and ask decoded
PricingSubscribeRecord(s, productId, bid, ask) ==
    LET spread == ask - bid
        mid == bid + ask
        price == Price(productId, mid, spread)
    IN PricingOnMessage(s, price)

-----------------------------------------------------------------------------
(* The inputs of the model *)

\* the products of the feeds
Products == {"9128283H1", "9128283L2"}
Books == {"TRSY1", "TRSY2", "TRSY3"}

\* 99-000 in ticks
BasePrice == 25344

\* One market data record: five levels, all bids at one price and all
\* offers at one price, with sizes 1..5 on the bid and 2..6 on the offer
SnapshotRows(bid, offer) ==
    [level \in 1..bookDepth |->
       [bid |-> bid, bidSize |-> level, offer |-> offer, offerSize |-> level + 1]]

\* the records of the market data feed: the offer 2 ticks (1/128, tight)
\* or 3 ticks (wide) above the bid
Snapshots == {SnapshotRows(BasePrice, BasePrice + d) : d \in {2, 3}}

\* the strings GenerateRandomId returns
OrderIds == {"A1", "A2"}
ParentOrderIds == {"AP1"}

\* the values the uninitialized AlgoStreamingService::count can start at
UninitCounts == {0, 1, 6}

\* the records of the inquiries feed
InquiryIds == {"I1", "I2"}
StateTokens == {"RECEIVED", "QUOTED", "DONE", "REJECTED", "CUSTOMER_REJECTED", "PENDING"}

\* the quotes of the prices feed and the delays between its records, in ms
Quotes == {<<BasePrice, BasePrice + 2>>, <<BasePrice + 1, BasePrice + 4>>}
Delays == {0, 100, 300, 301}

\* the values an uninitialized side, price and quantity can hold
Uninit == [side : {"BID", "OFFER"}, price : {0, BasePrice + 2}, quantity : {-3, 7}]

-----------------------------------------------------------------------------
(* The state machine *)

\* the stores of the execution and booking services as one record, with an
\* empty call trace
State ==
    [orderBooks |-> orderBooks, algoCount |-> algoCount,
     algoExecutions |-> algoExecutions, executionOrders |-> executionOrders,
     trades |-> trades, tbCount |-> tbCount, positions |-> positions,
     pv01s |-> pv01s, histPosition |-> histPosition, histRisk |-> histRisk,
     histExecution |-> histExecution, log |-> <<>>]

\* the stores of the inquiry service
InquiryState ==
    [inquirys |-> inquirys, histInquiry |-> histInquiry, log |-> <<>>]

\* the stores of the pricing, streaming and GUI services
PricingState ==
    [prices |-> prices, asCount |-> asCount, algoStreams |-> algoStreams,
     priceStreams |-> priceStreams, histStreaming |-> histStreaming,
     guiCurTime |-> guiCurTime, log |-> <<>>]

\* the callees of the call trace
Callees == {"AlgoExecutionServiceListener", "ExecutionServiceListener",
            "TradeBookingServiceListener", "PositionServiceListener",
            "RiskServiceListener", "HistoricalPositionListener",
            "HistoricalRiskListener", "HistoricalExecutionListener",
            "ExecutionServiceConnector",
            "positions.txt", "risk.txt", "executions.txt",
            "HistoricalInquiryListener", "aggregatedinquiries.txt",
            "AlgoStreamingServiceListener", "StreamingServiceListener",
            "HistoricalStreamingListener", "StreamingServiceConnector",
            "GUIServiceListener", "streaming.txt", "gui.txt"}

\* the entries of a call trace made at one callee
CallsAt(trace, at) == SelectSeq(trace, LAMBDA c : c.at = at)

\* the signed quantity a call trace delivers to PositionService for one
\* product and book
DeliveredIn(trace, product, book) ==
    LET ts == CallsAt(trace, "PositionServiceListener")
    IN SumSeq([i \in 1..Len(ts) |->
                 IF ts[i].data.product = product /\ ts[i].data.book = book
                 THEN (IF ts[i].data.side = "BUY" THEN ts[i].data.quantity
                       ELSE -ts[i].data.quantity)
                 ELSE 0])

\* the files of the sinks
SinkFiles == {"positions.txt", "risk.txt", "executions.txt", "streaming.txt",
              "aggregatedinquiries.txt", "gui.txt"}

\* a file opened with ios::app after n more rows caused by one record
AppendRows(rows, n, record) == rows \o [i \in 1..n |-> record]

\* the observation of an operation op whose call trace is trace
Observe(trace, op) ==
    /\ log' = trace
    /\ lastOp' = op
    /\ calls' = [c \in Callees |-> calls[c] + Len(CallsAt(trace, c))]
    /\ delivered' = [pb \in Products \X Books |->
                       delivered[pb] + DeliveredIn(trace, pb[1], pb[2])]
    /\ steps' = steps + 1
    /\ sinks' = [f \in SinkFiles |->
                   AppendRows(sinks[f], Len(CallsAt(trace, f)), steps + 1)]
    /\ feed' = feed
    /\ codec' = codec

\* the state after an operation that ends with the stores s
Commit(s, op) ==
    /\ orderBooks' = s.orderBooks
    /\ algoCount' = s.algoCount
    /\ algoExecutions' = s.algoExecutions
    /\ executionOrders' = s.executionOrders
    /\ trades' = s.trades
    /\ tbCount' = s.tbCount
    /\ positions' = s.positions
    /\ pv01s' = s.pv01s
    /\ histPosition' = s.histPosition
    /\ histRisk' = s.histRisk
    /\ histExecution' = s.histExecution
    /\ Observe(s.log, op)
    /\ UNCHANGED <<inquiryVars, pricingVars>>

InquiryCommit(s, op) ==
    /\ inquirys' = s.inquirys
    /\ histInquiry' = s.histInquiry
    /\ Observe(s.log, op)
    /\ UNCHANGED <<tradingVars, pricingVars>>

PricingCommit(s, now, op) ==
    /\ prices' = s.prices
    /\ asCount' = s.asCount
    /\ algoStreams' = s.algoStreams
    /\ priceStreams' = s.priceStreams
    /\ histStreaming' = s.histStreaming
    /\ guiCurTime' = s.guiCurTime
    /\ clock' = now
    /\ Observe(s.log, op)
    /\ UNCHANGED <<tradingVars, inquiryVars>>

\* AlgoStreamingService::count has no initializer: it starts at any value
InitPricing(counts) ==
    /\ prices = EmptyMap
    /\ asCount \in counts
    /\ algoStreams = EmptyMap
    /\ priceStreams = EmptyMap
    /\ histStreaming = EmptyMap
    /\ guiCurTime = 0
    /\ clock = 0

InitInquiry ==
    /\ inquirys = EmptyMap
    /\ histInquiry = EmptyMap

InitTrading ==
    /\ orderBooks = EmptyMap
    /\ algoCount = 0
    /\ algoExecutions = EmptyMap
    /\ executionOrders = EmptyMap
    /\ trades = EmptyMap
    /\ tbCount = 0
    /\ positions = EmptyMap
    /\ pv01s = EmptyMap
    /\ histPosition = EmptyMap
    /\ histRisk = EmptyMap
    /\ histExecution = EmptyMap

InitObservation ==
    /\ lastOp = [op |-> "none"]
    /\ log = <<>>
    /\ calls = [c \in Callees |-> 0]
    /\ delivered = [pb \in Products \X Books |-> 0]
    /\ steps = 0
    /\ sinks = [f \in SinkFiles |-> <<>>]
    /\ feed = "prices"

\* the state after the constructors of main.cpp; the pricing feed is not
\* part of the specifications that start here
Init ==
    /\ InitTrading /\ InitInquiry /\ InitPricing({0}) /\ InitObservation
    /\ codec = [op |-> "none"]

\* the same with AlgoStreamingService::count at any of its start values
InitPrices ==
    /\ InitTrading /\ InitInquiry /\ InitPricing(UninitCounts) /\ InitObservation
    /\ codec = [op |-> "none"]

\* The values of the uninitialized locals matter only to a book that fails
\* the spread gate; for a tight book they are never read
UninitRead(orderBook) ==
    LET bidOffer == GetBestBidOffer(orderBook)
    IN IF IsTight(bidOffer.bidOrder.price, bidOffer.offerOrder.price)
       THEN {CHOOSE u \in Uninit : TRUE}
       ELSE Uninit

\* MarketDataConnector::Subscribe reads one record of the market data feed
MarketDataRecordWithin(bound) ==
    /\ steps < bound
    /\ \E productId \in Products, rows \in Snapshots,
          orderId \in OrderIds, parentOrderId \in ParentOrderIds :
         LET pushed == PushRows(MarketDataGetData(orderBooks, productId)[productId],
                                rows, 1)
         IN \E bidOrder \in IterationOrders(PricesOf(pushed.bidStack)),
               offerOrder \in IterationOrders(PricesOf(pushed.offerStack)) :
              \E uninit \in UninitRead(pushed) :
                \E s \in {MarketDataSubscribeRecord(State, productId, rows, bidOrder,
                                                    offerOrder, orderId,
                                                    parentOrderId, uninit)} :
                  Commit(s, [op |-> "MarketDataRecord", product |-> productId])

MarketDataRecord == MarketDataRecordWithin(MaxBooks)

\* the algo executions delivered to the execution listener
AlgoExecutions ==
    {AlgoExecution(ExecutionOrder(product, side, orderId, "MARKET", BasePrice + 2,
                                  quantity, 0, parentOrderId, FALSE), "BROKERTEC") :
       product \in Products, side \in {"BID", "OFFER"}, orderId \in OrderIds,
       quantity \in {7}, parentOrderId \in ParentOrderIds}

\* AlgoExecutionService calls ExecutionServiceListener::ProcessAdd
ExecutionArrival(bound) ==
    /\ steps < bound
    /\ \E data \in AlgoExecutions :
         \E s \in {ExecutionListenerProcessAdd(
                     Logged(State, "ExecutionServiceListener", data), data)} :
           Commit(s, [op |-> "ExecutionArrival", product |-> data.executionOrder.product])

\* the records of the trades feed, decoded: 99-16+ is 132 ticks above 99
\* (the trade id of a record is T1 on book TRSY1 and T2 on book TRSY2)
FeedTrades ==
    {Trade(product, IF book = "TRSY1" THEN "T1" ELSE "T2", BasePrice + 132, book,
           quantity, side) :
       product \in Products, book \in {"TRSY1", "TRSY2"},
       quantity \in {4, 10}, side \in {"BUY", "SELL"}}

\* TradeBookingConnector::Subscribe reads one record of the trades feed
TradeRecordWithin(bound) ==
    /\ steps < bound
    /\ \E trade \in FeedTrades :
         \E s \in {TradeBookingOnMessage(State, trade)} :
           Commit(s, [op |-> "TradeRecord", product |-> trade.product])

TradeRecord == TradeRecordWithin(MaxTrades)

\* InquiryConnector::Subscribe reads one record of the inquiries feed
InquiryRecordWithin(bound) ==
    /\ steps < bound
    /\ \E inquiryId \in InquiryIds, productId \in Products, sideToken \in {"BUY", "SELL"},
          token \in StateTokens :
         \E s \in {InquirySubscribeRecord(InquiryState, inquiryId, productId, sideToken,
                                          10, BasePrice + 132, token)} :
           InquiryCommit(s, [op |-> "InquiryRecord", inquiryId |-> inquiryId,
                             state |-> ParseInquiryState(token), token |-> token,
                             entries |-> InquiryOnMessage(
                                           InquiryState,
                                           Inquiry(inquiryId, productId, sideToken, 10,
                                                   BasePrice + 132,
                                                   ParseInquiryState(token))).entries])

InquiryRecord == InquiryRecordWithin(MaxInquiries)

\* a call of InquiryService::SendQuote
SendQuoteCall ==
    /\ steps < MaxInquiries
    /\ \E inquiryId \in InquiryIds :
         \E s \in {SendQuote(InquiryState, inquiryId, BasePrice)} :
           InquiryCommit(s, [op |-> "SendQuote", inquiryId |-> inquiryId,
                             price |-> BasePrice])

\* a call of InquiryService::RejectInquiry
RejectInquiryCall ==
    /\ steps < MaxInquiries
    /\ \E inquiryId \in InquiryIds :
         \E s \in {RejectInquiry(InquiryState, inquiryId)} :
           InquiryCommit(s, [op |-> "RejectInquiry", inquiryId |-> inquiryId])

\* a call of InquiryService::GetData
GetDataCall ==
    /\ steps < MaxInquiries
    /\ \E inquiryId \in InquiryIds :
         \E s \in {InquiryGetData(InquiryState, inquiryId)} :
           InquiryCommit(s, [op |-> "GetData", inquiryId |-> inquiryId])

\* PricingConnector::Subscribe reads one record of the prices feed, delay
\* milliseconds after the last one
PricingRecordWithin(bound) ==
    /\ steps < bound
    /\ \E productId \in Products, quote \in Quotes, delay \in Delays :
         \E s \in {PricingSubscribeRecord(PricingState, productId, quote[1], quote[2])} :
           PricingCommit(s, clock + delay,
                         [op |-> "PricingRecord", product |-> productId,
                          curTimeBefore |-> guiCurTime])

PricingRecord == PricingRecordWithin(MaxPrices)

\* The market data feed driving the whole execution cascade
NextExec == MarketDataRecord

SpecExec == Init /\ [][NextExec]_vars

\* Execution orders arriving at the execution service
NextCycle == ExecutionArrival(MaxOrders)

SpecCycle == Init /\ [][NextCycle]_vars

\* Trades booked from the trades feed and from executions
NextBook == TradeRecord \/ ExecutionArrival(MaxTrades)

SpecBook == Init /\ [][NextBook]_vars

\* The inquiries feed and the calls of the inquiry service
NextInquiry == InquiryRecord \/ SendQuoteCall \/ RejectInquiryCall \/ GetDataCall

SpecInquiry == Init /\ [][NextInquiry]_vars

\* The prices feed
NextPrices == PricingRecord

SpecPrices == InitPrices /\ [][NextPrices]_vars

-----------------------------------------------------------------------------
(* The inquiry service *)

\* the inquiries passed to the listeners of InquiryService by the last
\* operation, in order
InquiryEvents == CallsAt(log, "HistoricalInquiryListener")

\* the last operation was a record of the inquiries feed in state RECEIVED
ReceivedArrived == lastOp.op = "InquiryRecord" /\ lastOp.state = "RECEIVED"

\* C1: when OnMessage receives an inquiry in state RECEIVED, the listeners
\* observe exactly three ProcessAdd events for it, carrying the states
\* RECEIVED, then QUOTED, then DONE.
C1_ThreeTransitions ==
    ReceivedArrived =>
        /\ Len(InquiryEvents) = 3
        /\ \A i \in 1..3 : InquiryEvents[i].data.inquiryId = lastOp.inquiryId
        /\ InquiryEvents[1].data.state = "RECEIVED"
        /\ InquiryEvents[2].data.state = "QUOTED"
        /\ InquiryEvents[3].data.state = "DONE"

\* C7: between operations the store of InquiryService holds no inquiry in
\* state DONE; after OnMessage has returned for an inquiry that arrived in
\* state RECEIVED the store has no entry under its identifier; and a feed
\* of only RECEIVED inquiries (every operation so far gave three listener
\* events) leaves the store empty.
C7_NoDoneStored ==
    /\ \A id \in DOMAIN inquirys : inquirys[id].state # "DONE"
    /\ ReceivedArrived => ~Has(inquirys, lastOp.inquiryId)
    /\ calls["HistoricalInquiryListener"] = 3 * steps => inquirys = EmptyMap

\* C7 witness: a RECEIVED inquiry has gone through OnMessage under an
\* identifier the store had held, and another inquiry is still stored
C7_Witness ==
    /\ ReceivedArrived
    /\ Len(InquiryEvents) = 3
    /\ ~Has(inquirys, lastOp.inquiryId)
    /\ calls["HistoricalInquiryListener"] < 3 * steps
    /\ inquirys # EmptyMap

-----------------------------------------------------------------------------
(* The algo execution service *)

\* the last operation was a record of the market data feed
BookProcessed == lastOp.op = "MarketDataRecord"

\* the best offer price minus the best bid price of a product's stored book
BestSpread(product) ==
    LET bidOffer == GetBestBidOffer(orderBooks[product])
    IN bidOffer.offerOrder.price - bidOffer.bidOrder.price

\* the last operation processed a book wider than 1/128
WideBookProcessed == BookProcessed /\ BestSpread(lastOp.product) > TightSpread

\* the last operation processed a book no wider than 1/128
TightBookProcessed == BookProcessed /\ BestSpread(lastOp.product) <= TightSpread

\* the execution order stored for a product by AlgoExecutionService
StoredOrder(product) == algoExecutions[product].executionOrder

\* C2: a book whose best offer minus best bid is greater than 1/128 produces
\* no execution event: no listener is notified, the product's stored
\* AlgoExecution is not replaced, and no ExecutionOrder, Trade, Position or
\* PV01 is updated downstream.
C2_WideBookEmitsNothing ==
    [][WideBookProcessed' =>
         /\ CallsAt(log', "ExecutionServiceListener") = <<>>
         /\ CallsAt(log', "TradeBookingServiceListener") = <<>>
         /\ CallsAt(log', "PositionServiceListener") = <<>>
         /\ CallsAt(log', "RiskServiceListener") = <<>>
         /\ UNCHANGED <<algoExecutions, executionOrders, trades, positions, pv01s>>]_vars

\* C8: for a tight book the side is BID when the counter before the call is
\* even and OFFER when it is odd; a BID order has the best offer price and
\* the best bid quantity, an OFFER order the best bid price and the best
\* offer quantity.
C8_TightBookCrosses ==
    [][TightBookProcessed' =>
         LET order == algoExecutions'[lastOp'.product].executionOrder
             bidOffer == GetBestBidOffer(orderBooks'[lastOp'.product])
         IN /\ Len(CallsAt(log', "ExecutionServiceListener")) = 1
            /\ CallsAt(log', "ExecutionServiceListener")[1].data.executionOrder = order
            /\ algoCount % 2 = 0 =>
                 /\ order.side = "BID"
                 /\ order.price = bidOffer.offerOrder.price
                 /\ order.visibleQuantity = bidOffer.bidOrder.quantity
            /\ algoCount % 2 = 1 =>
                 /\ order.side = "OFFER"
                 /\ order.price = bidOffer.bidOrder.price
                 /\ order.visibleQuantity = bidOffer.offerOrder.quantity]_vars

\* C8 witness: two consecutive tight books starting at counter 0, on the two
\* products: the first stored a BID at the offer, the second an OFFER at
\* the bid
C8_Witness ==
    /\ TightBookProcessed
    /\ algoCount = 2
    /\ \A p \in Products : Has(algoExecutions, p) /\ BestSpread(p) <= TightSpread
    /\ \E p \in Products :
         /\ p # lastOp.product
         /\ StoredOrder(p).side = "BID"
         /\ StoredOrder(p).price = GetBestBidOffer(orderBooks[p]).offerOrder.price
    /\ StoredOrder(lastOp.product).side = "OFFER"
    /\ StoredOrder(lastOp.product).price =
         GetBestBidOffer(orderBooks[lastOp.product]).bidOrder.price

\* C9: the parity counter starts at 0 and goes up by exactly one on every
\* book processed, tight or wide: after n calls of AlgoExecuteOrder it is n.
C9_CounterCountsBooks ==
    /\ algoCount = calls["AlgoExecutionServiceListener"]
    /\ algoCount = steps

\* C9 witness: two books processed, the last of them wide
C9_Witness ==
    /\ WideBookProcessed
    /\ calls["AlgoExecutionServiceListener"] = 2
    /\ algoCount = 2

-----------------------------------------------------------------------------
(* Trade booking, positions and risk *)

\* the signed quantity delivered to PositionService for a product, over
\* all books
DeliveredTo(product) == SumOver([b \in Books |-> delivered[<<product, b>>]], Books)

\* a product's aggregate position, zero before its first trade
AggregateOf(product) ==
    IF Has(positions, product) THEN GetAggregatePosition(positions[product]) ELSE 0

\* a product's position in one book, zero before the book's first trade
BookPositionOf(product, book) ==
    IF Has(positions, product) /\ Has(positions[product].bookpositions, book)
    THEN positions[product].bookpositions[book]
    ELSE 0

\* C3: after any sequence of trades delivered to PositionService for a
\* product, from the feed or fabricated from executions, the aggregate
\* position is the sum of quantity times sign (+1 BUY, -1 SELL) over those
\* trades, and is the sum of the per-book signed quantities.
C3_PositionConservation ==
    \A p \in Products :
        /\ AggregateOf(p) = DeliveredTo(p)
        /\ \A b \in Books : BookPositionOf(p, b) = delivered[<<p, b>>]
        /\ AggregateOf(p) = SumOver([b \in Books |-> BookPositionOf(p, b)], Books)

\* C3 witness: three trades delivered, a product holding a long book next
\* to a short book, one of the trades fabricated from an execution
C3_Witness ==
    /\ calls["PositionServiceListener"] = 3
    /\ calls["TradeBookingServiceListener"] >= 1
    /\ \E p \in Products :
         /\ Has(positions, p)
         /\ \E b1, b2 \in DOMAIN positions[p].bookpositions :
              positions[p].bookpositions[b1] > 0 /\ positions[p].bookpositions[b2] < 0

\* C5: the quantity of the PV01 record stored by RiskService for a product
\* is the sum of the signed quantities of the product's trades.
C5_RiskStoreConservation ==
    \A p \in Products : Has(pv01s, p) => pv01s[p].quantity = DeliveredTo(p)

\* the positions delivered to RiskService::AddPosition by the last
\* operation and the PV01 records passed to the risk listeners, in order
RiskArrivals == CallsAt(log, "RiskServiceListener")
RiskEvents == CallsAt(log, "HistoricalRiskListener")

\* C10: for every Position delivered to RiskService::AddPosition the PV01
\* passed to the listeners has the product's static factor and the
\* aggregate quantity the Position has at the call.
C10_PublishedRisk ==
    /\ Len(RiskEvents) = Len(RiskArrivals)
    /\ \A i \in 1..Len(RiskArrivals) :
         /\ RiskEvents[i].data.product = RiskArrivals[i].data.product
         /\ RiskEvents[i].data.pv01 = getPV01(RiskArrivals[i].data.product)
         /\ RiskEvents[i].data.quantity =
              SumOver(RiskArrivals[i].data.bookpositions,
                      DOMAIN RiskArrivals[i].data.bookpositions)

\* C10 witness: BUY 10 then SELL 4 of a product in one book: the second
\* trade publishes 6 while the stored record holds another quantity
C10_Witness ==
    /\ lastOp.op = "TradeRecord"
    /\ steps = 2
    /\ Len(RiskEvents) = 1
    /\ DOMAIN RiskArrivals[1].data.bookpositions = {"TRSY1"}
    /\ RiskEvents[1].data.quantity = 6
    /\ pv01s[lastOp.product].quantity # 6

\* C4: the k-th ExecutionOrder received by TradeBookingServiceListener is
\* booked to TRSY2 when k mod 3 = 1, TRSY3 when k mod 3 = 2 and TRSY1
\* when k mod 3 = 0, whatever its product.
C4_BookCycle ==
    lastOp.op = "ExecutionArrival" =>
        LET k == calls["TradeBookingServiceListener"]
            booked == CallsAt(log, "PositionServiceListener")
        IN /\ Len(booked) = 1
           /\ trades[booked[1].data.tradeId] = booked[1].data
           /\ k % 3 = 1 => booked[1].data.book = "TRSY2"
           /\ k % 3 = 2 => booked[1].data.book = "TRSY3"
           /\ k % 3 = 0 => booked[1].data.book = "TRSY1"

\* C4 witness: the fourth execution starts the cycle again at TRSY2
C4_Witness ==
    /\ lastOp.op = "ExecutionArrival"
    /\ calls["TradeBookingServiceListener"] = 4
    /\ CallsAt(log, "PositionServiceListener")[1].data.book = "TRSY2"
    /\ \E id \in DOMAIN trades : trades[id].book = "TRSY1"

-----------------------------------------------------------------------------
(* The GUI throttle *)

\* the prices appended to the GUI sink by the last operation
GuiRows == CallsAt(log, "gui.txt")

\* C6: a Price that PricingService delivers to the GUI listener at time t
\* is appended to the GUI sink if and only if t minus the time of the last
\* emission is greater than 300 ms, and an emission sets the time of the
\* last emission to t.
C6_ThrottleInPipeline ==
    lastOp.op = "PricingRecord" =>
        /\ Len(CallsAt(log, "GUIServiceListener")) = 1
        /\ Len(GuiRows) = 1 <=> clock - lastOp.curTimeBefore > throttle
        /\ Len(GuiRows) = 1 => guiCurTime = clock
        /\ Len(GuiRows) = 0 => guiCurTime = lastOp.curTimeBefore

-----------------------------------------------------------------------------
(* RiskService::GetBucketedRisk *)

\* BucketedSector(products, name): products is a vector
BucketedSector(products, name) == [products |-> products, name |-> name]

RECURSIVE BucketLoop(_, _, _, _)
\* the loop of GetBucketedRisk over the sector's products, from index i,
\* with the running pv01BucketVal and quantity
BucketLoop(stored, products, i, acc) ==
    IF i > Len(products) THEN acc
    ELSE LET productId == products[i]
         IN BucketLoop(stored, products, i + 1,
               IF Has(stored, productId)
               THEN [pv01BucketVal |-> acc.pv01BucketVal
                                        + stored[productId].pv01 * stored[productId].quantity,
                     quantity |-> acc.quantity + stored[productId].quantity]
               ELSE acc)

\* the PV01 that GetBucketedRisk constructs in its return statement
BucketedRiskValue(stored, sector) ==
    LET acc == BucketLoop(stored, sector.products, 1,
                          [pv01BucketVal |-> 0, quantity |-> 0])
    IN PV01(sector, acc.pv01BucketVal, acc.quantity)

\* GetBucketedRisk returns a const reference to that PV01, a temporary that
\* is destroyed when the function returns.  What a caller reads through the
\* reference is undefined: the bytes may still hold the value, or anything
\* that has overwritten them.
GetBucketedRisk(stored, sector) ==
    LET value == BucketedRiskValue(stored, sector)
    IN {value, PV01(sector, 0, 0), PV01(sector, value.pv01 + 1, value.quantity)}

\* the sectors asked for
Sectors ==
    {BucketedSector(products, "FrontEnd") :
       products \in {<<"9128283H1">>, <<"9128283H1", "9128283L2">>}}

\* a call of RiskService::GetBucketedRisk; returned is what the caller reads
\* through the returned reference
BucketedRiskCall ==
    /\ steps < MaxRiskOps
    /\ \E sector \in Sectors :
         \E returned \in GetBucketedRisk(pv01s, sector) :
           Commit(State, [op |-> "GetBucketedRisk", sector |-> sector,
                          returned |-> returned])

\* a record of the trades feed, within the bound of the risk runs
RiskTradeRecord == TradeRecordWithin(MaxRiskOps)

\* Trades booked from the feed and calls of GetBucketedRisk
NextRisk == RiskTradeRecord \/ BucketedRiskCall

SpecRisk == Init /\ [][NextRisk]_vars

\* the stored PV01 records of a sector's products
StoredIn(sector) ==
    {sector.products[i] : i \in 1..Len(sector.products)} \cap DOMAIN pv01s

\* C11: GetBucketedRisk returns a PV01 whose factor is the sum over the
\* sector's products with a stored record of factor times stored quantity
\* and whose quantity is the sum of those stored quantities; the call
\* changes no stored PV01 and notifies no listener.
C11_BucketedRisk ==
    lastOp.op = "GetBucketedRisk" =>
        /\ lastOp.returned.pv01 =
             SumOver([p \in StoredIn(lastOp.sector) |->
                        pv01s[p].pv01 * pv01s[p].quantity], StoredIn(lastOp.sector))
        /\ lastOp.returned.quantity =
             SumOver([p \in StoredIn(lastOp.sector) |-> pv01s[p].quantity],
                     StoredIn(lastOp.sector))
        /\ log = <<>>

-----------------------------------------------------------------------------
(* Delivery order *)

\* Prices and execution orders arriving in any interleaving
NextDelivery == PricingRecordWithin(MaxDeliveries) \/ ExecutionArrival(MaxDeliveries)

SpecDelivery == InitPrices /\ [][NextDelivery]_vars

\* the callees of the last operation, in call order
CallOrder == [i \in 1..Len(log) |-> log[i].at]

\* C12: every service calls its listeners in registration order, and the
\* whole cascade of one listener completes before the next is called: for
\* a price the AlgoStreaming -> Streaming -> historical streaming cascade
\* ends before the GUI listener sees the price; for an execution order the
\* TradeBooking -> Position -> Risk cascade, with its historical risk and
\* position rows, ends before the historical execution listener is called.
C12_DeliveryOrder ==
    /\ lastOp.op = "PricingRecord" =>
         /\ CallOrder = <<"AlgoStreamingServiceListener", "StreamingServiceListener",
                          "HistoricalStreamingListener", "streaming.txt",
                          "StreamingServiceConnector", "GUIServiceListener">>
         /\ \A i \in {1, 6} : log[i].data = prices[lastOp.product]
    /\ lastOp.op = "ExecutionArrival" =>
         /\ CallOrder = <<"ExecutionServiceListener", "TradeBookingServiceListener",
                          "PositionServiceListener", "RiskServiceListener",
                          "HistoricalRiskListener", "risk.txt",
                          "HistoricalPositionListener", "positions.txt",
                          "HistoricalExecutionListener", "executions.txt",
                          "ExecutionServiceConnector">>
         /\ log[2].data = log[9].data

\* C12 witness: a price delivered after an execution order, each with its
\* whole cascade
C12_Witness ==
    /\ lastOp.op = "PricingRecord"
    /\ Len(log) = 6
    /\ calls["HistoricalExecutionListener"] >= 1
    /\ calls["positions.txt"] >= 1

-----------------------------------------------------------------------------
(* main: the four feeds in series *)

\* main pumping the trades feed before the market data feed
NextFeed_tradesFirst(f) ==
    CASE f = "prices" -> "trades"
      [] f = "trades" -> "marketdata"
      [] f = "marketdata" -> "inquiries"
      [] OTHER -> "done"

\* the feed main pumps after the end of a feed
NextFeed(f) ==
    CASE f = "prices" -> "marketdata"
      [] f = "marketdata" -> "trades"
      [] f = "trades" -> "inquiries"
      [] OTHER -> "done"

\* Subscribe returns at the end of its file and main goes on to the next
EndOfFeed ==
    /\ feed \notin {"done", "terminated"}
    /\ feed' = NextFeed(feed)
    /\ UNCHANGED <<tradingVars, inquiryVars, pricingVars, ghostVars, sinks, codec>>

MainPrices == feed = "prices" /\ PricingRecordWithin(MaxRecords)
MainMarketData == feed = "marketdata" /\ MarketDataRecordWithin(MaxRecords)
MainTrades == feed = "trades" /\ TradeRecordWithin(MaxRecords)
MainInquiries == feed = "inquiries" /\ InquiryRecordWithin(MaxRecords)

\* main pumping the four feeds
NextMain == MainPrices \/ MainMarketData \/ MainTrades \/ MainInquiries \/ EndOfFeed

SpecMain == Init /\ [][NextMain]_vars

\* the place of a feed in the series, and the feed of a record
FeedRank(f) ==
    CASE f = "prices" -> 1 [] f = "marketdata" -> 2 [] f = "trades" -> 3
      [] f = "inquiries" -> 4 [] OTHER -> 5
FeedOf(op) ==
    CASE op = "PricingRecord" -> "prices" [] op = "MarketDataRecord" -> "marketdata"
      [] op = "TradeRecord" -> "trades" [] op = "InquiryRecord" -> "inquiries"
      [] OTHER -> "none"

\* C13: every store update and sink row caused by a record happens before
\* any caused by a later record of its feed, so each sink's rows are in the
\* order of the records that caused them; and the four feeds are processed
\* in series: prices, market data, trades, inquiries.
C13_RecordAndFeedOrder ==
    [][/\ FeedRank(feed') >= FeedRank(feed)
       /\ steps' # steps =>
            /\ steps' = steps + 1
            /\ FeedOf(lastOp'.op) = feed /\ feed' = feed
            /\ \A f \in SinkFiles :
                 /\ SubSeq(sinks'[f], 1, Len(sinks[f])) = sinks[f]
                 /\ Len(sinks'[f]) = Len(sinks[f]) + Len(CallsAt(log', f))
                 /\ \A i \in 1..Len(sinks'[f]) :
                      i > Len(sinks[f]) <=> sinks'[f][i] = steps'
       /\ steps' = steps => UNCHANGED <<tradingVars, inquiryVars, pricingVars, sinks>>]_vars

\* C13 witness: main has gone through the first three feeds and read two
\* records of the inquiries feed; the three rows of the first record
\* precede the row of the second
C13_Witness ==
    /\ feed = "inquiries"
    /\ steps = 2
    /\ lastOp.op = "InquiryRecord"
    /\ sinks["aggregatedinquiries.txt"] = <<1, 1, 1, 2>>

-----------------------------------------------------------------------------
(* functions.hpp: the two convertPrice overloads *)
(* A string is a sequence of one-character strings; a price is an integer  *)
(* number of 1/256 ticks.                                                   *)

Digits == <<"0", "1", "2", "3", "4", "5", "6", "7", "8", "9">>
IsDigit(c) == \E d \in 1..10 : Digits[d] = c
DigitValue(c) == (CHOOSE d \in 1..10 : Digits[d] = c) - 1

RECURSIVE to_string(_)
\* std::to_string of a non-negative int
to_string(n) ==
    IF n < 10 THEN <<Digits[n + 1]>>
    ELSE to_string(n \div 10) \o <<Digits[(n % 10) + 1]>>

\* string::npos
npos == -1

RECURSIVE FindFrom(_, _, _)
\* string::find(c): the zero-based index of the first c, or npos
FindFrom(str, c, i) ==
    IF i > Len(str) THEN npos
    ELSE IF str[i] = c THEN i - 1
    ELSE FindFrom(str, c, i + 1)

\* string::substr(pos, n), for pos <= length
substr(str, pos, n) ==
    SubSeq(str, pos + 1, IF pos + n < Len(str) THEN pos + n ELSE Len(str))

RECURSIVE DigitPrefix(_, _, _)
\* the value of the longest prefix of decimal digits of str from index i,
\* and how many digits it has
DigitPrefix(str, i, acc) ==
    IF i > Len(str) \/ ~IsDigit(str[i]) THEN acc
    ELSE DigitPrefix(str, i + 1,
                     [value |-> acc.value * 10 + DigitValue(str[i]),
                      digits |-> acc.digits + 1])

\* std::stod on a string of digits and signs: an optional sign, then the
\* longest run of digits; std::invalid_argument when there is no digit
stod(str) ==
    LET signed == str # <<>> /\ str[1] \in {"+", "-"}
        run == DigitPrefix(str, IF signed THEN 2 ELSE 1, [value |-> 0, digits |-> 0])
    IN IF run.digits = 0 THEN [ok |-> FALSE, what |-> "invalid_argument"]
       ELSE [ok |-> TRUE,
             value |-> IF signed /\ str[1] = "-" THEN -run.value ELSE run.value]

\* convertPrice(const string&): fractional notation to a price.  The
\* statement under dec2 == "+" is a comparison and changes nothing.
convertPriceString(priceStr) ==
    LET dashPos == FindFrom(priceStr, "-", 1)
    IN IF dashPos = npos \/ dashPos + 3 > Len(priceStr)
       THEN [ok |-> FALSE, what |-> "Invalid price format"]
       ELSE LET intpart == stod(substr(priceStr, 0, dashPos))
                dec1 == stod(substr(priceStr, dashPos + 1, 2))
                dec2 == stod(substr(priceStr, dashPos + 3, 1))
            IN IF ~intpart.ok \/ ~dec1.ok \/ ~dec2.ok
               THEN [ok |-> FALSE, what |-> "invalid_argument"]
               ELSE [ok |-> TRUE,
                     price |-> intpart.value * 256 + dec1.value * 8 + dec2.value]

\* a one-digit xy left without its zero
PadXY_none(xy) == <<>>

\* the zero that pads a one-digit xy
PadXY(xy) == IF xy < 10 THEN <<"0">> ELSE <<>>

\* convertPrice(double): a non-negative price to fractional notation
convertPriceDouble(price) ==
    LET intPart == price \div 256
        fractionalPart == price - intPart * 256
        totalTicks == fractionalPart
        xy == totalTicks \div 8
        z == totalTicks % 8
    IN to_string(intPart) \o <<"-">> \o PadXY(xy) \o to_string(xy) \o to_string(z)

\* the whole parts of the prices converted: 0..MaxWhole and the largest
\* whole part below 1000
Wholes == (0..MaxWhole) \cup {999}

\* the prices of the 1/256 grid with those whole parts
PriceGrid == {w * 256 + t : w \in Wholes, t \in 0..255}

\* the strings "I-xyZ" decoded, with their parts: Z a digit 0..7 or '+'
PriceStrings ==
    {[str |-> to_string(w) \o <<"-", Digits[(xy \div 10) + 1], Digits[(xy % 10) + 1], Z>>,
      whole |-> w, xy |-> xy, glyph |-> Z] :
       w \in {0, 99, 100}, xy \in 0..31,
       Z \in {"0", "1", "2", "3", "4", "5", "6", "7", "+"}}

\* the arguments of the calls
CodecArguments ==
    {[op |-> "none", kind |-> "double", input |-> p] : p \in PriceGrid}
    \cup {[op |-> "none", kind |-> "string", input |-> s] : s \in PriceStrings}

\* a call of convertPrice(double)
EncodeCall ==
    /\ codec.op = "none" /\ codec.kind = "double"
    /\ codec' = [op |-> "encode", input |-> codec.input,
                 output |-> convertPriceDouble(codec.input)]
    /\ UNCHANGED <<tradingVars, inquiryVars, pricingVars, ghostVars, mainVars>>

\* a call of convertPrice(const string&)
DecodeCall ==
    /\ codec.op = "none" /\ codec.kind = "string"
    /\ codec' = [op |-> "decode", input |-> codec.input,
                 output |-> convertPriceString(codec.input.str)]
    /\ UNCHANGED <<tradingVars, inquiryVars, pricingVars, ghostVars, mainVars>>

\* a call of convertPrice(const string&) on the result of convertPrice(double)
DecodeEncodedCall ==
    /\ codec.op = "encode"
    /\ codec' = [op |-> "roundtrip", input |-> codec.input, encoded |-> codec.output,
                 output |-> convertPriceString(codec.output)]
    /\ UNCHANGED <<tradingVars, inquiryVars, pricingVars, ghostVars, mainVars>>

InitCodec ==
    /\ InitTrading /\ InitInquiry /\ InitPricing({0}) /\ InitObservation
    /\ codec \in CodecArguments

NextCodec == EncodeCall \/ DecodeCall \/ DecodeEncodedCall

SpecCodec == InitCodec /\ [][NextCodec]_vars

\* C14: for every price p = k/256 with 0 <= p < 1000, decoding the string
\* produced by encoding p returns exactly p.
C14_RoundTrip ==
    codec.op = "roundtrip" => codec.output.ok /\ codec.output.price = codec.input

\* C14 witness: 99 + 16/32 + 4/256 encoded and decoded again; and the
\* largest price below 1000
C14_Witness ==
    /\ codec.op = "roundtrip"
    /\ codec.input \in {99 * 256 + 16 * 8 + 4, 999 * 256 + 255}
    /\ codec.output.ok
    /\ Len(codec.encoded) \in {6, 7}

\* the value of the last glyph: the digit, and 4 for '+'
GlyphValue(glyph) == IF glyph = "+" THEN 4 ELSE DigitValue(glyph)

\* C15: decoding "I-xyZ" returns I + xy/32 + z'/256 with z' the digit Z, and
\* z' = 4 when Z is '+': a string ending in '+' decodes successfully.
C15_DecodePlus ==
    codec.op = "decode" =>
        /\ codec.output.ok
        /\ codec.output.price =
             codec.input.whole * 256 + codec.input.xy * 8 + GlyphValue(codec.input.glyph)

\* C16: encoding a price whose 256th-tick remainder is 4 renders the last
\* character as '+', never as the digit 4.
C16_EncodePlus ==
    codec.op = "encode" /\ codec.input % 8 = 4 =>
        codec.output[Len(codec.output)] = "+"

-----------------------------------------------------------------------------
(* PricingConnector::Subscribe on the text of a record *)

\* One line of PricingConnector::Subscribe: the bid and ask strings are
\* decoded by convertPrice.  When convertPrice throws, the exception leaves
\* Subscribe and no Price is passed on.
PricingSubscribeLine(s, productId, bidStr, askStr) ==
    LET bid == convertPriceString(bidStr)
        ask == convertPriceString(askStr)
    IN IF bid.ok /\ ask.ok
       THEN PricingSubscribeRecord(s, productId, bid.price, ask.price)
       ELSE s

\* a fractional string with its digits: whole part, xy, last digit
QuoteString(whole, xy, z) ==
    [str |-> to_string(whole) \o <<"-", Digits[(xy \div 10) + 1], Digits[(xy % 10) + 1],
                                   Digits[z + 1]>>,
     whole |-> whole, xy |-> xy, z |-> z]

\* the quotes of the lines read: 99-000, 99-002, 99-003, 99-008, 99-016,
\* 100-000, bid below ask
QuoteLines ==
    LET strings == {QuoteString(99, 0, 0), QuoteString(99, 0, 2), QuoteString(99, 0, 3),
                    QuoteString(99, 0, 8), QuoteString(99, 1, 6), QuoteString(100, 0, 0)}
        Ticks(q) == q.whole * 256 + q.xy * 8 + q.z
    IN {l \in [bid : strings, ask : strings] : Ticks(l.bid) < Ticks(l.ask)}

\* PricingConnector::Subscribe reads one line of the prices feed
QuoteLineRecord ==
    /\ steps < MaxQuoteLines
    /\ \E productId \in Products, line \in QuoteLines :
         \E s \in {PricingSubscribeLine(PricingState, productId, line.bid.str, line.ask.str)} :
           PricingCommit(s, clock + 1,
                         [op |-> "PricingRecord", product |-> productId,
                          curTimeBefore |-> guiCurTime, line |-> line])

NextQuotes == QuoteLineRecord

SpecQuotes == InitPrices /\ [][NextQuotes]_vars

\* the Prices passed to PricingService::OnMessage's listeners by the last
\* operation
PricesPassed == CallsAt(log, "AlgoStreamingServiceListener")

\* the number of 1/256 ticks a fractional string with digits I, xy, z
\* stands for
TicksOf(q) == q.whole * 256 + q.xy * 8 + q.z

\* the last operation read the line with bid 99-008 and ask 99-016
ExampleLineRead ==
    /\ lastOp.op = "PricingRecord"
    /\ lastOp.line.bid.str = <<"9", "9", "-", "0", "0", "8">>
    /\ lastOp.line.ask.str = <<"9", "9", "-", "0", "1", "6">>

\* for every quote line the Price passed has mid (bid + ask)/2 (mid is kept
\* in 1/512 ticks) and spread ask - bid
MidAndSpreadExact ==
    lastOp.op = "PricingRecord" =>
        /\ Len(PricesPassed) = 1
        /\ PricesPassed[1].data.product = lastOp.product
        /\ PricesPassed[1].data.mid = TicksOf(lastOp.line.bid) + TicksOf(lastOp.line.ask)
        /\ PricesPassed[1].data.bidOfferSpread =
             TicksOf(lastOp.line.ask) - TicksOf(lastOp.line.bid)
        /\ prices[lastOp.product] = PricesPassed[1].data

-----------------------------------------------------------------------------
(* MarketDataService::AggregateDepth *)

\* MarketDataService::AggregateDepth: orderBooks[_productId] is replaced by
\* its aggregate.  bidOrder and offerOrder are the iteration orders of the
\* two maps.
AggregateDepth(books, productId, bidOrder, offerOrder) ==
    LET books1 == MarketDataGetData(books, productId)
        orderBook == books1[productId]
    IN [books1 EXCEPT ![productId] =
          OrderBook(orderBook.product,
                    AggregateStack(orderBook.bidStack, bidOrder, "BID"),
                    AggregateStack(orderBook.offerStack, offerOrder, "OFFER"))]

\* a call of AggregateDepth on the stored book of a product
AggregateDepthCall ==
    /\ steps < MaxDepthOps
    /\ \E productId \in Products :
         LET before == MarketDataGetData(orderBooks, productId)[productId]
         IN \E bidOrder \in IterationOrders(PricesOf(before.bidStack)),
               offerOrder \in IterationOrders(PricesOf(before.offerStack)) :
              \E s \in {[State EXCEPT !.orderBooks =
                           AggregateDepth(@, productId, bidOrder, offerOrder)]} :
                Commit(s, [op |-> "AggregateDepth", product |-> productId,
                           before |-> before])

\* MarketDataConnector::Subscribe reads one record; the book as pushed,
\* before its aggregation, is kept with the operation
DepthRecord ==
    /\ steps < MaxDepthOps
    /\ \E productId \in Products, rows \in Snapshots,
          orderId \in {"A1"}, parentOrderId \in ParentOrderIds :
         LET pushed == PushRows(MarketDataGetData(orderBooks, productId)[productId],
                                rows, 1)
         IN \E bidOrder \in IterationOrders(PricesOf(pushed.bidStack)),
               offerOrder \in IterationOrders(PricesOf(pushed.offerStack)) :
              \E uninit \in UninitRead(pushed) :
                \E s \in {MarketDataSubscribeRecord(State, productId, rows, bidOrder,
                                                    offerOrder, orderId,
                                                    parentOrderId, uninit)} :
                  Commit(s, [op |-> "MarketDataRecord", product |-> productId,
                             before |-> pushed])

NextDepth == DepthRecord \/ AggregateDepthCall

SpecDepth == Init /\ [][NextDepth]_vars

\* the (price, side) levels of a stack with their quantities
LevelsOf(stack) ==
    {<<stack[i].price, stack[i].side, stack[i].quantity>> : i \in 1..Len(stack)}

\* a stack with at most one order per price
OnePerPrice(stack) ==
    \A i, j \in 1..Len(stack) : stack[i].price = stack[j].price => i = j

\* a book as an aggregation leaves it
IsAggregated(orderBook) ==
    OnePerPrice(orderBook.bidStack) /\ OnePerPrice(orderBook.offerStack)

\* stack is the aggregate of input: one order per price of the input, with
\* the side and the sum of the input quantities at that price
AggregateOfStack(stack, input, side) ==
    /\ OnePerPrice(stack)
    /\ PricesOf(stack) = PricesOf(input)
    /\ \A i \in 1..Len(stack) :
         /\ stack[i].side = side
         /\ stack[i].quantity = QuantityAt(input, stack[i].price)

\* the last operation aggregated a book
Aggregated == lastOp.op \in {"AggregateDepth", "MarketDataRecord"}

\* C18: AggregateDepth applied to an aggregated book leaves the same
\* (price, side) levels with the same quantity at each; after an
\* aggregation each side has at most one order per price, whose quantity is
\* the sum of the input quantities at that price.
C18_AggregateIdempotent ==
    Aggregated =>
      LET after == orderBooks[lastOp.product]
      IN /\ AggregateOfStack(after.bidStack, lastOp.before.bidStack, "BID")
         /\ AggregateOfStack(after.offerStack, lastOp.before.offerStack, "OFFER")
         /\ IsAggregated(lastOp.before) =>
              /\ LevelsOf(after.bidStack) = LevelsOf(lastOp.before.bidStack)
              /\ LevelsOf(after.offerStack) = LevelsOf(lastOp.before.offerStack)
              /\ Len(after.bidStack) = Len(lastOp.before.bidStack)
              /\ Len(after.offerStack) = Len(lastOp.before.offerStack)

\* C18 witness: AggregateDepth is called on an aggregated book with two
\* offer levels that summed several orders each
C18_Witness ==
    /\ lastOp.op = "AggregateDepth"
    /\ IsAggregated(lastOp.before)
    /\ Len(lastOp.before.offerStack) = 2
    /\ Len(lastOp.before.bidStack) = 1
    /\ lastOp.before.bidStack[1].quantity = 30

-----------------------------------------------------------------------------
(* OrderBook::GetBestBidOffer *)

\* the stacks of one side: 1..MaxStack orders at 99-000 or 99-001,
\* the quantity of an order telling its place in the stack
StacksOf(side) ==
    UNION {{[i \in 1..n |-> Order(BasePrice + p[i], i, side)] : p \in [1..n -> 0..1]} : n \in 1..MaxStack}

\* the order books GetBestBidOffer is called on
BestBooks ==
    {OrderBook(product, bidStack, offerStack) :
       product \in {"9128283H1"}, bidStack \in StacksOf("BID"),
       offerStack \in StacksOf("OFFER")}

\* a call of OrderBook::GetBestBidOffer on a book that is no part of the
\* stores, which it leaves alone
BestBidOfferCall ==
    /\ steps < MaxBestCalls
    /\ \E orderBook \in BestBooks :
         Commit(State, [op |-> "GetBestBidOffer", orderBook |-> orderBook,
                        returned |-> GetBestBidOffer(orderBook)])

NextBest == BestBidOfferCall

SpecBest == Init /\ [][NextBest]_vars

\* order is the first order of stack whose price is best, where best is
\* the greatest (bid) or least (offer) price of the stack
FirstAtPrice(stack, order, best) ==
    /\ order.price = best
    /\ \E i \in 1..Len(stack) :
         /\ stack[i] = order
         /\ \A j \in 1..(i - 1) : stack[j].price # best

\* the greatest and the least price of a stack
MaxPrice(stack) == CHOOSE p \in PricesOf(stack) : \A r \in PricesOf(stack) : r <= p
MinPrice(stack) == CHOOSE p \in PricesOf(stack) : \A r \in PricesOf(stack) : p <= r

\* C19: for a book with non-empty stacks GetBestBidOffer returns a bid at
\* the greatest bid price and an offer at the least offer price, each the
\* first order of its stack at that price.
C19_BestBidOffer ==
    lastOp.op = "GetBestBidOffer" =>
      /\ FirstAtPrice(lastOp.orderBook.bidStack, lastOp.returned.bidOrder,
                      MaxPrice(lastOp.orderBook.bidStack))
      /\ FirstAtPrice(lastOp.orderBook.offerStack, lastOp.returned.offerOrder,
                      MinPrice(lastOp.orderBook.offerStack))

\* C19 witness: the best bid price is shared by the second and third order
\* and the best offer price by the first and third; the second and the
\* first are returned
C19_Witness ==
    /\ lastOp.op = "GetBestBidOffer"
    /\ Len(lastOp.orderBook.bidStack) = 3
    /\ lastOp.orderBook.bidStack[1].price < lastOp.orderBook.bidStack[2].price
    /\ lastOp.orderBook.bidStack[2].price = lastOp.orderBook.bidStack[3].price
    /\ lastOp.returned.bidOrder.quantity = 2
    /\ Len(lastOp.orderBook.offerStack) = 3
    /\ lastOp.orderBook.offerStack[1].price = lastOp.orderBook.offerStack[3].price
    /\ lastOp.orderBook.offerStack[1].price < lastOp.orderBook.offerStack[2].price
    /\ lastOp.returned.offerOrder.quantity = 1

-----------------------------------------------------------------------------
(* GUIService: the first events after construction *)

\* a call of GUIService::PublishThrottledPrice, delay ms after the event
\* before it (the construction, for the first)
PublishThrottledPriceCall ==
    /\ steps < MaxGuiEvents
    /\ \E productId \in Products, quote \in Quotes, delay \in Delays :
         \E s \in {PublishThrottledPrice(PricingState,
                                         Price(productId, quote[1] + quote[2],
                                               quote[2] - quote[1]),
                                         clock + delay)} :
           PricingCommit(s, clock + delay,
                         [op |-> "PublishThrottledPrice", product |-> productId,
                          curTimeBefore |-> guiCurTime])

\* the Price events of the GUI service: the prices of the feed, which reach
\* GUIServiceListener::ProcessAdd, and calls of PublishThrottledPrice
NextGui == PricingRecordWithin(MaxGuiEvents) \/ PublishThrottledPriceCall

SpecGui == InitPrices /\ [][NextGui]_vars

\* C20: the first Price event handled by the GUI service is emitted to the
\* GUI sink, however soon after the construction it arrives, and a second
\* event within 300 ms of the first is dropped.
C20_FirstEventEmitted ==
    [][/\ steps' = 1 => Len(CallsAt(log', "gui.txt")) = 1
       /\ (steps' = 2 /\ clock' - clock <= throttle) =>
            Len(CallsAt(log', "gui.txt")) = 0]_vars

-----------------------------------------------------------------------------
(* GUIService::PublishThrottledPrice: the throttle *)

\* the clock values of the rows written to gui.txt so far, kept with the
\* last operation
EmitTimes == IF "emitTimes" \in DOMAIN lastOp THEN lastOp.emitTimes ELSE <<>>

\* a call of GUIService::PublishThrottledPrice at a clock value not below
\* the one of the call before
ThrottledCall ==
    /\ steps < MaxThrottleCalls
    /\ \E productId \in Products, quote \in Quotes, delay \in Delays :
         \E s \in {PublishThrottledPrice(PricingState,
                                         Price(productId, quote[1] + quote[2],
                                               quote[2] - quote[1]),
                                         clock + delay)} :
           PricingCommit(s, clock + delay,
                         [op |-> "PublishThrottledPrice", product |-> productId,
                          curTimeBefore |-> guiCurTime,
                          emitTimes |-> EmitTimes \o
                             [i \in 1..Len(CallsAt(s.log, "gui.txt")) |-> clock + delay]])

NextThrottle == ThrottledCall

SpecThrottle == Init /\ [][NextThrottle]_vars

\* C21: any two consecutive emissions to the GUI sink differ by more than
\* 300 ms, and a dropped event leaves the time of the last emission
\* (cur_time) unchanged and writes nothing.
C21_ThrottleSpacing ==
    [][lastOp'.op = "PublishThrottledPrice" =>
         /\ \A i \in 1..(Len(lastOp'.emitTimes) - 1) :
              lastOp'.emitTimes[i + 1] - lastOp'.emitTimes[i] > throttle
         /\ Len(lastOp'.emitTimes) = Len(sinks'["gui.txt"])
         /\ IF Len(sinks'["gui.txt"]) > Len(sinks["gui.txt"])
            THEN /\ Len(sinks'["gui.txt"]) = Len(sinks["gui.txt"]) + 1
                 /\ guiCurTime' = clock'
            ELSE /\ guiCurTime' = guiCurTime
                 /\ log' = <<>>
                 /\ sinks' = sinks]_vars

\* C21 witness: three calls, an emission, a drop 300 ms later and an
\* emission 301 ms after the drop
C21_Witness ==
    /\ lastOp.op = "PublishThrottledPrice"
    /\ steps = 3
    /\ Len(lastOp.emitTimes) = 2
    /\ lastOp.emitTimes[2] - lastOp.emitTimes[1] = 601
    /\ Len(sinks["gui.txt"]) = 2
    /\ sinks["gui.txt"] = <<1, 3>>

-----------------------------------------------------------------------------
(* TradeBookingServiceListener::ProcessAdd *)

\* the execution orders the listener receives: either side, with and
\* without a hidden quantity
ListenerOrders ==
    {ExecutionOrder(product, side, orderId, "MARKET", BasePrice + 2, 7, hidden,
                    parentOrderId, FALSE) :
       product \in Products, side \in {"BID", "OFFER"}, orderId \in OrderIds,
       hidden \in {0, 3}, parentOrderId \in ParentOrderIds}

\* ExecutionService's listener loop calls TradeBookingServiceListener::ProcessAdd
BookingListenerCall ==
    /\ steps < MaxBookings
    /\ \E order \in ListenerOrders :
         \E s \in {TradeBookingListenerProcessAdd(
                     Logged(State, "TradeBookingServiceListener", order), order)} :
           Commit(s, [op |-> "BookingListenerCall", product |-> order.product,
                      order |-> order])

\* a record of the trades feed, its trade kept with the operation
BookingFeedTrade ==
    /\ steps < MaxBookings
    /\ \E trade \in FeedTrades :
         \E s \in {TradeBookingOnMessage(State, trade)} :
           Commit(s, [op |-> "TradeRecord", product |-> trade.product,
                      trade |-> trade])

NextBooking == BookingListenerCall \/ BookingFeedTrade

SpecBooking == Init /\ [][NextBooking]_vars

\* the trade reached the Position service once and is stored under its
\* identifier
BookedOnce(trade) ==
    /\ Len(CallsAt(log, "PositionServiceListener")) = 1
    /\ CallsAt(log, "PositionServiceListener")[1].data = trade
    /\ Has(trades, trade.tradeId)
    /\ trades[trade.tradeId] = trade
    /\ Has(positions, trade.product)

\* C22: an ExecutionOrder received by TradeBookingServiceListener becomes
\* exactly one Trade with the order's order-id as trade-id, quantity
\* visible + hidden, side BUY for BID and SELL for OFFER, and the order's
\* product and price; the Trade is stored under its trade-id and passed to
\* the Position service as a feed trade is.
C22_OrderBecomesTrade ==
    /\ lastOp.op = "BookingListenerCall" =>
         /\ Len(CallsAt(log, "TradeBookingServiceListener")) = 1
         /\ \E book \in Books :
              BookedOnce(Trade(lastOp.order.product, lastOp.order.orderId,
                               lastOp.order.price, book,
                               lastOp.order.visibleQuantity + lastOp.order.hiddenQuantity,
                               IF lastOp.order.side = "BID" THEN "BUY" ELSE "SELL"))
    /\ lastOp.op = "TradeRecord" => BookedOnce(lastOp.trade)

\* C22 witness: an OFFER order with a hidden quantity is booked as a SELL
\* of 10 after another order
C22_Witness ==
    /\ lastOp.op = "BookingListenerCall"
    /\ steps = 2
    /\ lastOp.order.side = "OFFER"
    /\ lastOp.order.hiddenQuantity = 3
    /\ trades[lastOp.order.orderId].side = "SELL"
    /\ trades[lastOp.order.orderId].quantity = 10

-----------------------------------------------------------------------------
(* AlgoStreamingService::PublishAlgoStream *)

\* the Price the last record passed to AlgoStreamingServiceListener and the
\* AlgoStream published for it to StreamingServiceListener
PriceIn(trace) == CallsAt(trace, "AlgoStreamingServiceListener")[1].data
AlgoStreamOut(trace) == CallsAt(trace, "StreamingServiceListener")[1].data

\* an order of a price stream with the quantities of the counter value count
QuantitiesOf(order, count) ==
    /\ order.visibleQuantity = (IF count % 2 = 0 THEN 1000000 ELSE 2000000)
    /\ order.hiddenQuantity = 2 * order.visibleQuantity

-----------------------------------------------------------------------------
(* InquiryService::SendQuote and RejectInquiry *)

\* C24: SendQuote(id, price) on a stored inquiry in state RECEIVED sets its
\* price, leaves its other fields and every other inquiry unchanged and
\* calls ProcessAdd once on the listener; on a stored inquiry in another
\* state it changes nothing and calls nobody.
C24_SendQuote ==
    [][(lastOp'.op = "SendQuote" /\ Has(inquirys, lastOp'.inquiryId)) =>
         LET id == lastOp'.inquiryId
         IN IF inquirys[id].state = "RECEIVED"
            THEN /\ inquirys' = [inquirys EXCEPT ![id].price = lastOp'.price]
                 /\ Len(log') = 2
                 /\ log'[1] = [at |-> "HistoricalInquiryListener", data |-> inquirys'[id]]
                 /\ log'[2].at = "aggregatedinquiries.txt"
            ELSE /\ inquirys' = inquirys
                 /\ histInquiry' = histInquiry
                 /\ log' = <<>>]_vars

\* C24 witness: a stored RECEIVED inquiry was quoted at 99-000 while
\* another, REJECTED, inquiry is stored
C24_Witness ==
    /\ lastOp.op = "SendQuote"
    /\ Len(log) = 2
    /\ Has(inquirys, lastOp.inquiryId)
    /\ inquirys[lastOp.inquiryId].state = "RECEIVED"
    /\ inquirys[lastOp.inquiryId].price = BasePrice
    /\ \E other \in DOMAIN inquirys : inquirys[other].state = "REJECTED"
    /\ steps = 3

\* C25: RejectInquiry(id) sets the state of the stored inquiry to REJECTED,
\* calls no listener and no connector, and leaves the inquiry in the store
\* with its other fields, and every other inquiry, unchanged.
C25_RejectInquiry ==
    [][(lastOp'.op = "RejectInquiry" /\ Has(inquirys, lastOp'.inquiryId)) =>
         /\ inquirys' = [inquirys EXCEPT ![lastOp'.inquiryId].state = "REJECTED"]
         /\ log' = <<>>
         /\ histInquiry' = histInquiry
         /\ sinks' = sinks]_vars

\* C25 witness: a stored CUSTOMER_REJECTED inquiry of the feed was rejected
\* while another inquiry is stored
C25_Witness ==
    /\ lastOp.op = "RejectInquiry"
    /\ steps = 3
    /\ DOMAIN inquirys = InquiryIds
    /\ inquirys[lastOp.inquiryId].state = "REJECTED"
    /\ inquirys[lastOp.inquiryId].inquiryId = lastOp.inquiryId
    /\ Len(sinks["aggregatedinquiries.txt"]) = 2
    /\ \E other \in InquiryIds : inquirys[other].state = "CUSTOMER_REJECTED"

\* the terminal states of an inquiry
TerminalStates == {"REJECTED", "CUSTOMER_REJECTED"}

\* C26: an inquiry that arrives through OnMessage as REJECTED or
\* CUSTOMER_REJECTED is stored under its id in that state with one
\* ProcessAdd on the listener, and a stored inquiry in one of these states
\* is neither removed nor changed by a later OnMessage with another id or
\* by a SendQuote call with any id.
C26_TerminalStates ==
    [][/\ (lastOp'.op = "InquiryRecord" /\ lastOp'.state \in TerminalStates) =>
            /\ Has(inquirys', lastOp'.inquiryId)
            /\ inquirys'[lastOp'.inquiryId].state = lastOp'.state
            /\ inquirys'[lastOp'.inquiryId].inquiryId = lastOp'.inquiryId
            /\ Len(CallsAt(log', "HistoricalInquiryListener")) = 1
            /\ CallsAt(log', "HistoricalInquiryListener")[1].data = inquirys'[lastOp'.inquiryId]
       /\ lastOp'.op \in {"InquiryRecord", "SendQuote"} =>
            \A id \in DOMAIN inquirys :
               (/\ inquirys[id].state \in TerminalStates
                /\ ~(lastOp'.op = "InquiryRecord" /\ lastOp'.inquiryId = id)) =>
                  /\ Has(inquirys', id)
                  /\ inquirys'[id] = inquirys[id]]_vars

\* C26 witness: I1 arrived CUSTOMER_REJECTED, then a RECEIVED record of I2
\* went through its cycle, then SendQuote was called on I1, which is still
\* stored as it arrived
C26_Witness ==
    /\ lastOp.op = "SendQuote"
    /\ lastOp.inquiryId = "I1"
    /\ steps = 3
    /\ DOMAIN inquirys = {"I1"}
    /\ inquirys["I1"].state = "CUSTOMER_REJECTED"
    /\ inquirys["I1"].price = BasePrice + 132
    /\ sinks["aggregatedinquiries.txt"] = <<1, 2, 2, 2>>

-----------------------------------------------------------------------------
(* HistoricalDataService *)

\* the records one operation delivers to a HistoricalDataService: the
\* arguments of its listener's ProcessAdd, in order
ReceivedAt(trace, listener) ==
    LET cs == CallsAt(trace, listener) IN [i \in 1..Len(cs) |-> cs[i].data]

\* new is the store old after the records received: each key received
\* holds the last record received with it, the other keys what they held;
\* and the connector got each record once, in order (published)
Persisted(old, new, received, published) ==
    /\ published = received
    /\ DOMAIN new = DOMAIN old \cup {received[i].product : i \in 1..Len(received)}
    /\ \A key \in DOMAIN new :
         LET at == {i \in 1..Len(received) : received[i].product = key}
         IN IF at = {} THEN new[key] = old[key]
            ELSE new[key] = received[CHOOSE i \in at : \A j \in at : j <= i]

\* C27: after every record delivered to a HistoricalDataService its store
\* holds for each key the record most recently received with that key, the
\* key being the product identifier for every kind, INQUIRY included; and
\* every record received is passed once to the connector.
C27_HistoricalStore ==
    [][/\ Persisted(histPosition, histPosition', ReceivedAt(log', "HistoricalPositionListener"), ReceivedAt(log', "positions.txt"))
       /\ Persisted(histRisk, histRisk', ReceivedAt(log', "HistoricalRiskListener"), ReceivedAt(log', "risk.txt"))
       /\ Persisted(histExecution, histExecution', ReceivedAt(log', "HistoricalExecutionListener"), ReceivedAt(log', "executions.txt"))
       /\ Persisted(histStreaming, histStreaming', ReceivedAt(log', "HistoricalStreamingListener"), ReceivedAt(log', "streaming.txt"))
       /\ Persisted(histInquiry, histInquiry', ReceivedAt(log', "HistoricalInquiryListener"), ReceivedAt(log', "aggregatedinquiries.txt"))
       /\ DOMAIN histPosition' \subseteq Products
       /\ DOMAIN histRisk' \subseteq Products
       /\ DOMAIN histExecution' \subseteq Products
       /\ DOMAIN histStreaming' \subseteq Products
       /\ DOMAIN histInquiry' \subseteq Products]_vars

\* C27 witness: two inquiries on one product, I1 still in the inquiry
\* store, share the slot of the product, which holds I2, and both were
\* appended
C27_Witness ==
    /\ lastOp.op = "InquiryRecord"
    /\ Has(inquirys, "I1")
    /\ \E p \in Products :
         /\ DOMAIN histInquiry = {p}
         /\ inquirys["I1"].product = p
         /\ histInquiry[p].inquiryId = "I2"
    /\ sinks["aggregatedinquiries.txt"] = <<1, 2>>

-----------------------------------------------------------------------------
(* Feed records naming an unknown product *)

\* getProductObject never throwing: an unknown identifier gives a product
\* of that identifier
getProductObject_lenient(cusip) == [ok |-> TRUE, product |-> cusip]

\* getProductObject: the bond of the catalog, or invalid_argument
getProductObject(cusip) ==
    IF cusip \in Catalog THEN [ok |-> TRUE, product |-> cusip]
    ELSE [ok |-> FALSE, what |-> "invalid_argument"]

\* One record of each connector's Subscribe, from the product identifier of
\* the line: ok tells whether the record was processed, s the stores after
\* it.  An exception leaves Subscribe before OnMessage is called.
PricingFeedRecord(s, productId, bid, ask) ==
    LET r == getProductObject(productId)
    IN IF r.ok THEN [ok |-> TRUE, s |-> PricingSubscribeRecord(s, r.product, bid, ask)]
       ELSE [ok |-> FALSE, s |-> s]

\* MarketDataService::GetData constructs OrderBook(productId), whose
\* constructor calls getProductObject, only for a product without a book
MarketDataFeedRecord(s, productId, rows, bidOrder, offerOrder, orderId, parentOrderId, uninit) ==
    LET r == IF Has(s.orderBooks, productId) THEN [ok |-> TRUE]
             ELSE getProductObject(productId)
    IN IF r.ok
       THEN [ok |-> TRUE,
             s |-> MarketDataSubscribeRecord(s, productId, rows, bidOrder, offerOrder,
                                             orderId, parentOrderId, uninit)]
       ELSE [ok |-> FALSE, s |-> s]

TradeFeedRecord(s, productId, tradeId, price, book, quantity, side) ==
    LET r == getProductObject(productId)
    IN IF r.ok
       THEN [ok |-> TRUE,
             s |-> TradeBookingOnMessage(s, Trade(r.product, tradeId, price, book,
                                                  quantity, side))]
       ELSE [ok |-> FALSE, s |-> s]

InquiryFeedRecord(s, inquiryId, productId, sideToken, quantity, price, token) ==
    LET r == getProductObject(productId)
    IN IF r.ok
       THEN [ok |-> TRUE,
             s |-> InquirySubscribeRecord(s, inquiryId, r.product, sideToken, quantity,
                                          price, token)]
       ELSE [ok |-> FALSE, s |-> s]

\* the product identifiers of the lines: two of the catalog and one that is
\* not
FeedCusips == Products \cup {"912828XX0"}

\* the exception leaves Subscribe and main, which has no handler: the
\* program ends with its stores and files as they are
Terminate(op) ==
    /\ feed' = "terminated"
    /\ lastOp' = op
    /\ log' = <<>>
    /\ steps' = steps + 1
    /\ UNCHANGED <<tradingVars, inquiryVars, pricingVars, calls, delivered, sinks, codec>>

FatalPrices ==
    /\ feed = "prices" /\ steps < MaxFatalRecords
    /\ \E productId \in FeedCusips, quote \in Quotes :
         \E r \in {PricingFeedRecord(PricingState, productId, quote[1], quote[2])} :
           LET op == [op |-> "PricingRecord", product |-> productId,
                      curTimeBefore |-> guiCurTime]
           IN IF r.ok THEN PricingCommit(r.s, clock + 301, op) ELSE Terminate(op)

FatalMarketData ==
    /\ feed = "marketdata" /\ steps < MaxFatalRecords
    /\ \E productId \in FeedCusips, rows \in Snapshots :
         LET pushed == PushRows(MarketDataGetData(orderBooks, productId)[productId],
                                rows, 1)
         IN \E bidOrder \in IterationOrders(PricesOf(pushed.bidStack)),
               offerOrder \in IterationOrders(PricesOf(pushed.offerStack)) :
              \E uninit \in UninitRead(pushed) :
                \E r \in {MarketDataFeedRecord(State, productId, rows, bidOrder,
                                               offerOrder, "A1", "AP1", uninit)} :
                  LET op == [op |-> "MarketDataRecord", product |-> productId]
                  IN IF r.ok THEN Commit(r.s, op) ELSE Terminate(op)

FatalTrades ==
    /\ feed = "trades" /\ steps < MaxFatalRecords
    /\ \E productId \in FeedCusips, side \in {"BUY", "SELL"} :
         \E r \in {TradeFeedRecord(State, productId, "T1", BasePrice + 132, "TRSY1",
                                   4, side)} :
           LET op == [op |-> "TradeRecord", product |-> productId]
           IN IF r.ok THEN Commit(r.s, op) ELSE Terminate(op)

FatalInquiries ==
    /\ feed = "inquiries" /\ steps < MaxFatalRecords
    /\ \E productId \in FeedCusips, inquiryId \in InquiryIds,
          token \in {"RECEIVED", "REJECTED"} :
         \E r \in {InquiryFeedRecord(InquiryState, inquiryId, productId, "BUY", 10,
                                     BasePrice + 132, token)} :
           LET op == [op |-> "InquiryRecord", product |-> productId,
                      inquiryId |-> inquiryId, state |-> ParseInquiryState(token)]
           IN IF r.ok THEN InquiryCommit(r.s, op) ELSE Terminate(op)

NextFatal == FatalPrices \/ FatalMarketData \/ FatalTrades \/ FatalInquiries \/ EndOfFeed

SpecFatal == Init /\ [][NextFatal]_vars

\* the stores of the services and the files of the sinks
Stores == <<tradingVars, inquiryVars, pricingVars, sinks>>

\* C28: a feed record naming a product that is not in the catalog ends the
\* program before OnMessage is called: no store changes, no listener is
\* called, what earlier records did stays, and nothing is processed after.
C28_UnknownProductFatal ==
    [][/\ (FeedOf(lastOp'.op) # "none" /\ lastOp'.product \notin Catalog) =>
            /\ Stores' = Stores
            /\ log' = <<>>
            /\ calls' = calls
            /\ feed' = "terminated"
       /\ feed = "terminated" => FALSE]_vars

\* C28 witness: a price and a trade were processed, then an inquiry record
\* named an unknown product; the files hold the rows of the two records
C28_Witness ==
    /\ feed = "terminated"
    /\ lastOp.op = "InquiryRecord"
    /\ lastOp.product \notin Catalog
    /\ steps = 3
    /\ sinks["streaming.txt"] = <<1>>
    /\ sinks["positions.txt"] = <<2>>
    /\ inquirys = EmptyMap

-----------------------------------------------------------------------------
(* InquiryConnector::Subscribe: the state token *)

\* the tokens that name a state other than CUSTOMER_REJECTED
KnownTokens == {"RECEIVED", "QUOTED", "DONE", "REJECTED"}

\* C29: an inquiry record whose state token is none of RECEIVED, QUOTED,
\* DONE, REJECTED is stored under its id in state CUSTOMER_REJECTED and
\* passed to the listener once, in that state.
C29_UnknownToken ==
    (lastOp.op = "InquiryRecord" /\ lastOp.token \notin KnownTokens) =>
        /\ Has(inquirys, lastOp.inquiryId)
        /\ inquirys[lastOp.inquiryId].state = "CUSTOMER_REJECTED"
        /\ inquirys[lastOp.inquiryId].inquiryId = lastOp.inquiryId
        /\ Len(InquiryEvents) = 1
        /\ InquiryEvents[1].data = inquirys[lastOp.inquiryId]
        /\ Len(log) = 2

\* C29 witness: a record with the token PENDING is stored as
\* CUSTOMER_REJECTED
C29_Witness ==
    /\ lastOp.op = "InquiryRecord"
    /\ lastOp.token = "PENDING"
    /\ steps = 2
    /\ inquirys[lastOp.inquiryId].state = "CUSTOMER_REJECTED"
    /\ Len(sinks["aggregatedinquiries.txt"]) = 4

-----------------------------------------------------------------------------
(* Products without a PV01 factor *)

\* the products traded: the 2Y bond, which has a factor, and the 20Y bond
\* of the catalog, which getPV01 does not list
FactorProducts == {"9128283H1", "912810TW8"}

\* a record of the trades feed on one of these products
FactorTradeRecord ==
    /\ steps < MaxRiskOps
    /\ \E productId \in FactorProducts, quantity \in {4, 10}, side \in {"BUY", "SELL"} :
         \E r \in {TradeFeedRecord(State, productId, "T1", BasePrice + 132, "TRSY1",
                                   quantity, side)} :
           r.ok /\ Commit(r.s, [op |-> "TradeRecord", product |-> productId])

\* the sectors asked for: the 20Y bond alone and with the 2Y bond
FactorSectors ==
    {BucketedSector(products, "LongEnd") :
       products \in {<<"912810TW8">>, <<"9128283H1", "912810TW8">>}}

\* a call of RiskService::GetBucketedRisk on one of these sectors
FactorBucketedRiskCall ==
    /\ steps < MaxRiskOps
    /\ \E sector \in FactorSectors :
         \E returned \in GetBucketedRisk(pv01s, sector) :
           Commit(State, [op |-> "GetBucketedRisk", sector |-> sector,
                          returned |-> returned])

NextFactor == FactorTradeRecord \/ FactorBucketedRiskCall

SpecFactor == Init /\ [][NextFactor]_vars

\* the sector PV01 of the products that have a factor
FactorOf(sector) ==
    LET ids == StoredIn(sector)
    IN IF "9128283H1" \in ids
       THEN getPV01("9128283H1") * pv01s["9128283H1"].quantity
       ELSE 0

\* C30: a Position on a product without an entry in the PV01 table raises
\* no error: RiskService stores and publishes a PV01 record with factor 0
\* for it, and the product contributes 0 to a bucketed sector PV01.
C30_MissingFactorIsZero ==
    /\ (lastOp.op = "TradeRecord" /\ lastOp.product = "912810TW8") =>
         /\ Has(pv01s, "912810TW8")
         /\ pv01s["912810TW8"].pv01 = 0
         /\ Len(CallsAt(log, "HistoricalRiskListener")) = 1
         /\ CallsAt(log, "HistoricalRiskListener")[1].data.product = "912810TW8"
         /\ CallsAt(log, "HistoricalRiskListener")[1].data.pv01 = 0
    /\ lastOp.op = "GetBucketedRisk" => lastOp.returned.pv01 = FactorOf(lastOp.sector)

-----------------------------------------------------------------------------
(* The life of the keys of the stores *)

\* the keys of new that old does not hold or holds with another entry
ChangedKeys(old, new) ==
    {k \in DOMAIN new : ~Has(old, k) \/ new[k] # old[k]}

\* new holds every key of old and differs from old in one key at most,
\* which is in concerned
OneKeyTouched(old, new, concerned) ==
    /\ DOMAIN old \subseteq DOMAIN new
    /\ Cardinality(ChangedKeys(old, new)) <= 1
    /\ ChangedKeys(old, new) \subseteq concerned

\* the product of the operation, for the operations that name one
ProductOf(op) == IF "product" \in DOMAIN op THEN {op.product} ELSE Products

\* C31: in every service other than InquiryService the keys of the store
\* only grow: an operation creates or replaces the entry of the key it
\* concerns, removes no key and changes the entry of no other key.
C31_KeysOnlyGrow ==
    [][/\ OneKeyTouched(prices, prices', ProductOf(lastOp'))
       /\ OneKeyTouched(orderBooks, orderBooks', ProductOf(lastOp'))
       /\ OneKeyTouched(algoStreams, algoStreams', ProductOf(lastOp'))
       /\ OneKeyTouched(priceStreams, priceStreams', ProductOf(lastOp'))
       /\ OneKeyTouched(algoExecutions, algoExecutions', ProductOf(lastOp'))
       /\ OneKeyTouched(executionOrders, executionOrders', OrderIds)
       /\ OneKeyTouched(trades, trades', DOMAIN trades')
       /\ OneKeyTouched(positions, positions', ProductOf(lastOp'))
       /\ OneKeyTouched(pv01s, pv01s', ProductOf(lastOp'))
       /\ OneKeyTouched(histPosition, histPosition', ProductOf(lastOp'))
       /\ OneKeyTouched(histRisk, histRisk', ProductOf(lastOp'))
       /\ OneKeyTouched(histExecution, histExecution', ProductOf(lastOp'))
       /\ OneKeyTouched(histStreaming, histStreaming', ProductOf(lastOp'))
       /\ OneKeyTouched(histInquiry, histInquiry', ProductOf(lastOp'))]_vars

\* C31 witness: the second market data record, on another product than the
\* first, left two keys in every store of the execution chain
C31_Witness ==
    /\ lastOp.op = "MarketDataRecord"
    /\ steps = 2
    /\ DOMAIN orderBooks = Products
    /\ DOMAIN algoExecutions = Products
    /\ DOMAIN executionOrders = OrderIds
    /\ DOMAIN trades = OrderIds
    /\ DOMAIN positions = Products
    /\ DOMAIN pv01s = Products
    /\ DOMAIN histExecution = Products

-----------------------------------------------------------------------------
(* The quantity of the published PV01 *)

\* the trades the last operation passed to the Position service
TradeArrivals == CallsAt(log, "PositionServiceListener")

\* C32 as stated: the PV01 record that RiskService publishes for a Position
\* carries the signed quantity of the single trade that triggered the
\* Position event, not the accumulated quantity.
C32_PublishedDelta ==
    /\ Len(RiskEvents) = Len(TradeArrivals)
    /\ \A i \in 1..Len(TradeArrivals) :
         RiskEvents[i].data.quantity =
            (IF TradeArrivals[i].data.side = "BUY" THEN TradeArrivals[i].data.quantity
             ELSE -TradeArrivals[i].data.quantity)

\* the signed quantity delivered to the Position service for a product so
\* far, over all books
DeliveredFor(product) == SumOver([b \in Books |-> delivered[<<product, b>>]], Books)

\* C32 amended: the PV01 record that RiskService publishes for a Position
\* carries the Position's aggregate, the signed sum of the trades of the
\* product up to the one that triggered the event, not the signed quantity
\* of that single trade.
C32_PublishedAggregate ==
    /\ Len(RiskEvents) = Len(TradeArrivals)
    /\ Len(TradeArrivals) <= 1
    /\ \A i \in 1..Len(TradeArrivals) :
         /\ RiskEvents[i].data.product = TradeArrivals[i].data.product
         /\ RiskEvents[i].data.quantity = DeliveredFor(TradeArrivals[i].data.product)

\* C32 witness: BUY 10 in one book, then SELL 4 in another book publishes
\* 6, neither the -4 of the trade nor the 16 of the store
C32_Witness ==
    /\ lastOp.op = "TradeRecord"
    /\ steps = 2
    /\ Len(RiskEvents) = 1
    /\ TradeArrivals[1].data.side = "SELL"
    /\ TradeArrivals[1].data.quantity = 4
    /\ DOMAIN positions[lastOp.product].bookpositions = {"TRSY1", "TRSY2"}
    /\ RiskEvents[1].data.quantity = 6
    /\ pv01s[lastOp.product].quantity = 16

-----------------------------------------------------------------------------
(* InquiryService::OnMessage: arrivals in state QUOTED, nesting *)

\* C33: an inquiry that arrives through OnMessage in state QUOTED is set to
\* DONE and dispatched again, so the listener receives two ProcessAdd calls
\* in total, and the inquiry is absent from the store afterwards.
C33_QuotedArrival ==
    (lastOp.op = "InquiryRecord" /\ lastOp.state = "QUOTED") =>
        /\ Len(InquiryEvents) = 2
        /\ InquiryEvents[2].data.state = "DONE"
        /\ ~Has(inquirys, lastOp.inquiryId)

-----------------------------------------------------------------------------
(* The book of a product over successive snapshots *)

\* the records of a feed whose best prices move: the bid at 99-000 or one
\* tick above it, the offer three or four ticks above 99-000
MovingSnapshots ==
    {SnapshotRows(BasePrice + b, BasePrice + o) : b \in {0, 1}, o \in {3, 4}}

\* One record of MarketDataConnector::Subscribe read from such a feed
SnapshotRecord ==
    /\ steps < MaxSnapshots
    /\ \E productId \in Products, rows \in MovingSnapshots,
          orderId \in {"A1"}, parentOrderId \in ParentOrderIds :
         LET pushed == PushRows(MarketDataGetData(orderBooks, productId)[productId],
                                rows, 1)
         IN \E bidOrder \in IterationOrders(PricesOf(pushed.bidStack)),
               offerOrder \in IterationOrders(PricesOf(pushed.offerStack)) :
              \E uninit \in UninitRead(pushed) :
                \E s \in {MarketDataSubscribeRecord(State, productId, rows, bidOrder,
                                                    offerOrder, orderId,
                                                    parentOrderId, uninit)} :
                  Commit(s, [op |-> "SnapshotRecord", product |-> productId,
                             rows |-> rows])

NextSnapshots == SnapshotRecord

SpecSnapshots == Init /\ [][NextSnapshots]_vars

\* the stored stacks of a product, empty while it has no book
StoredStack(books, productId, side) ==
    IF ~Has(books, productId) THEN <<>>
    ELSE IF side = "BID" THEN books[productId].bidStack
    ELSE books[productId].offerStack

\* the orders one record pushes on one side
RowsStack(rows, side) ==
    [level \in 1..bookDepth |->
       IF side = "BID" THEN Order(rows[level].bid, rows[level].bidSize, "BID")
       ELSE Order(rows[level].offer, rows[level].offerSize, "OFFER")]

\* a side of the book after a record: the levels it had and the record's,
\* one order per price, each quantity the old one plus the record's
Accumulated(old, new, pushed) ==
    /\ PricesOf(new) = PricesOf(old) \cup PricesOf(pushed)
    /\ Len(new) = Cardinality(PricesOf(new))
    /\ \A price \in PricesOf(new) :
         QuantityAt(new, price) = QuantityAt(old, price) + QuantityAt(pushed, price)

\* C34: a snapshot of a product is added to the product's stored book and
\* never replaces it: on each side the levels after the snapshot are the
\* stored levels and the snapshot's, the quantity of each level is its
\* stored quantity plus the snapshot's quantity at that price, and where
\* the product had a book its best bid price does not fall and its best
\* offer price does not rise.
C34_BookAccumulates ==
    [][lastOp'.op = "SnapshotRecord" =>
         LET p == lastOp'.product
             oldBid == StoredStack(orderBooks, p, "BID")
             oldOffer == StoredStack(orderBooks, p, "OFFER")
             newBid == StoredStack(orderBooks', p, "BID")
             newOffer == StoredStack(orderBooks', p, "OFFER")
         IN /\ Accumulated(oldBid, newBid, RowsStack(lastOp'.rows, "BID"))
            /\ Accumulated(oldOffer, newOffer, RowsStack(lastOp'.rows, "OFFER"))
            /\ Has(orderBooks, p) =>
                 /\ MaxPrice(newBid) >= MaxPrice(oldBid)
                 /\ MinPrice(newOffer) <= MinPrice(oldOffer)
            /\ \A q \in Products \ {p} :
                 StoredStack(orderBooks', q, "BID") = StoredStack(orderBooks, q, "BID")]_vars

\* two snapshots of one product at different bids and different offers:
\* the book holds both bid levels and both offer levels, with 15
\* and 20 a level
C34_Witness ==
    /\ steps = 2
    /\ Has(orderBooks, "9128283H1")
    /\ LevelsOf(orderBooks["9128283H1"].bidStack) =
         {<<BasePrice, "BID", 15>>, <<BasePrice + 1, "BID", 15>>}
    /\ LevelsOf(orderBooks["9128283H1"].offerStack) =
         {<<BasePrice + 3, "OFFER", 20>>, <<BasePrice + 4, "OFFER", 20>>}

-----------------------------------------------------------------------------
(* The counters of AlgoExecutionService and AlgoStreamingService *)

\* the events the two algo services have published so far, oldest first:
\* the product and side of each AlgoExecution, with the counter before it
\* and whether its book was tight, and the product and visible quantity of
\* each AlgoStream, with the number of prices before it
PublishedSides == IF lastOp.op \in {"SharedBook", "SharedPrice"} THEN lastOp.sides ELSE <<>>
PublishedVisibles == IF lastOp.op \in {"SharedBook", "SharedPrice"} THEN lastOp.visibles ELSE <<>>

\* One record of the market data feed, whose book AlgoExecuteOrder turns
\* into an AlgoExecution for the listener of ExecutionService
SharedBook ==
    /\ steps < MaxSharedEvents
    /\ \E productId \in Products, rows \in Snapshots,
          orderId \in {"A1"}, parentOrderId \in ParentOrderIds :
         LET pushed == PushRows(MarketDataGetData(orderBooks, productId)[productId],
                                rows, 1)
         IN \E bidOrder \in IterationOrders(PricesOf(pushed.bidStack)),
               offerOrder \in IterationOrders(PricesOf(pushed.offerStack)) :
              \E uninit \in UninitRead(pushed) :
                \E s \in {MarketDataSubscribeRecord(State, productId, rows, bidOrder,
                                                    offerOrder, orderId,
                                                    parentOrderId, uninit)} :
                  /\ Commit(s, [op |-> "SharedBook", product |-> productId,
                                sides |-> PublishedSides \o
                                   [i \in 1..Len(CallsAt(s.log, "ExecutionServiceListener")) |->
                                      [product |-> productId,
                                       side |-> CallsAt(s.log, "ExecutionServiceListener")[i].data.executionOrder.side,
                                       before |-> algoCount,
                                       tight |-> IsTight(GetBestBidOffer(pushed).bidOrder.price,
                                                         GetBestBidOffer(pushed).offerOrder.price)]],
                                visibles |-> PublishedVisibles])

\* One record of the prices feed, which PublishAlgoStream turns into an
\* AlgoStream for the listener of StreamingService
SharedPrice ==
    /\ steps < MaxSharedEvents
    /\ \E productId \in Products, quote \in {<<BasePrice, BasePrice + 2>>}, delay \in {0} :
         \E s \in {PricingSubscribeRecord(PricingState, productId, quote[1], quote[2])} :
           PricingCommit(s, clock + delay,
                         [op |-> "SharedPrice", product |-> productId,
                          sides |-> PublishedSides,
                          visibles |-> PublishedVisibles \o
                             [i \in 1..Len(CallsAt(s.log, "StreamingServiceListener")) |->
                                [product |-> productId,
                                 visible |-> CallsAt(s.log, "StreamingServiceListener")[i].data.priceStream.bidOrder.visibleQuantity,
                                 before |-> Len(PublishedVisibles)]]])

NextShared == SharedBook \/ SharedPrice

SpecShared == InitPrices /\ [][NextShared]_vars

\* the events of two products strictly alternate
StrictlyAlternate(events) ==
    \A i \in 1..(Len(events) - 1) : events[i].product # events[i + 1].product

\* events of one product carry the same value under the given field
SameForProduct(events, field) ==
    \A i, j \in 1..Len(events) :
      events[i].product = events[j].product => events[i][field] = events[j][field]

\* C35 as stated: the side of every AlgoExecution is the parity of the
\* number of books of all products processed before it, the visible
\* quantity of every AlgoStream changes with the parity of the number of
\* prices of all products processed before it, and when the events of two
\* products strictly alternate all events of one product carry the same
\* side, or the same visible quantity.
C35_SharedCounters ==
    /\ \A i \in 1..Len(PublishedSides) :
         PublishedSides[i].side = AlgoSide(PublishedSides[i].before)
    /\ \A i, j \in 1..Len(PublishedVisibles) :
         (PublishedVisibles[i].visible = PublishedVisibles[j].visible)
           <=> ((PublishedVisibles[j].before - PublishedVisibles[i].before) % 2 = 0)
    /\ StrictlyAlternate(PublishedSides) => SameForProduct(PublishedSides, "side")
    /\ StrictlyAlternate(PublishedVisibles) => SameForProduct(PublishedVisibles, "visible")

-----------------------------------------------------------------------------
(* A trade-id booked more than once *)

\* the aggregate of a product in a store of positions
AggregateIn(store, product) ==
    IF Has(store, product) THEN GetAggregatePosition(store[product]) ELSE 0

\* the signed quantity of the trades of a product held in a store of trades
StoredSignedSum(store, product) ==
    SumOver([id \in DOMAIN store |->
               IF store[id].product = product THEN SignedQuantity(store[id]) ELSE 0],
            DOMAIN store)

\* the signed quantity of the trade messages of a product delivered so far
DeliveredSum(count, product) ==
    SumOver([b \in Books |-> count[<<product, b>>]], Books)

\* C36: every call of TradeBookingService::OnMessage, also one whose
\* trade-id is already stored, leaves the trade under its id with the other
\* entries as they were, notifies the listener once with it, and
\* PositionService adds its signed quantity to the product's aggregate: the
\* store holds one trade per trade-id and the aggregate of every product is
\* the signed sum over the trade messages delivered.
C36_RepeatedTradeId ==
    [][lastOp'.op \in {"TradeRecord", "BookingListenerCall"} =>
         /\ Len(CallsAt(log', "PositionServiceListener")) = 1
         /\ LET trade == CallsAt(log', "PositionServiceListener")[1].data
            IN /\ trades' = MapPut(trades, trade.tradeId, trade)
               /\ Has(trades, trade.tradeId) => DOMAIN trades' = DOMAIN trades
               /\ \A id \in DOMAIN trades' : trades'[id].tradeId = id
               /\ AggregateIn(positions', trade.product) =
                    AggregateIn(positions, trade.product) + SignedQuantity(trade)
               /\ \A p \in Products :
                    AggregateIn(positions', p) = DeliveredSum(delivered', p)]_vars

\* the trade-id T1 booked twice as a purchase of 4 of one product: one
\* stored trade of 4 and an aggregate position of 8
C36_Witness ==
    /\ lastOp.op = "TradeRecord"
    /\ DOMAIN trades = {"T1"}
    /\ trades["T1"].quantity = 4
    /\ StoredSignedSum(trades, "9128283H1") = 4
    /\ AggregateIn(positions, "9128283H1") = 8
    /\ DeliveredSum(delivered, "9128283H1") = 8

-----------------------------------------------------------------------------
(* InquiryService: what the store holds between operations *)

\* An inquiry built by InquiryConnector::Subscribe carries a product of the
\* catalog; the one map::operator[] inserts carries the default product.
ArrivedThroughOnMessage(inquiry) == inquiry.product \in Products

\* C37: after every operation the store holds no inquiry in state RECEIVED
\* or QUOTED that arrived through OnMessage, an inquiry that arrives in one
\* of these states being DONE and out of the store when OnMessage returns;
\* and SendQuote neither changes a stored inquiry that arrived through
\* OnMessage nor notifies the listeners about one.
C37_NoOpenInquiryStored ==
    [][/\ \A id \in DOMAIN inquirys' :
            ArrivedThroughOnMessage(inquirys'[id]) =>
                inquirys'[id].state \notin {"RECEIVED", "QUOTED"}
       /\ (lastOp'.op = "InquiryRecord" /\ lastOp'.state \in {"RECEIVED", "QUOTED"}) =>
            /\ ~Has(inquirys', lastOp'.inquiryId)
            /\ CallsAt(log', "HistoricalInquiryListener")
                 [Len(CallsAt(log', "HistoricalInquiryListener"))].data.state = "DONE"
       /\ lastOp'.op = "SendQuote" =>
            /\ \A i \in 1..Len(log') : ~ArrivedThroughOnMessage(log'[i].data)
            /\ \A id \in DOMAIN inquirys :
                 ArrivedThroughOnMessage(inquirys[id]) =>
                     Has(inquirys', id) /\ inquirys'[id] = inquirys[id]]_vars

\* I1 arrived in state RECEIVED and I2 in state REJECTED, then SendQuote
\* on I1: I2 is stored as it arrived, and the inquiry quoted and passed to
\* the listener under I1 is a default one
C37_Witness ==
    /\ lastOp.op = "SendQuote"
    /\ lastOp.inquiryId = "I1"
    /\ calls["HistoricalInquiryListener"] = 5
    /\ Len(InquiryEvents) = 1
    /\ InquiryEvents[1].data = [DefaultInquiry EXCEPT !.price = BasePrice]
    /\ DOMAIN inquirys = {"I1", "I2"}
    /\ inquirys["I1"] = [DefaultInquiry EXCEPT !.price = BasePrice]
    /\ ArrivedThroughOnMessage(inquirys["I2"])
    /\ inquirys["I2"].state = "REJECTED"

-----------------------------------------------------------------------------
(* InquiryService: calls with an identifier that is not stored *)

\* C38: SendQuote, RejectInquiry and GetData called with an identifier
\* that is not in the store each put a default-constructed inquiry under
\* it: SendQuote sets its price and passes it to the listener, its state
\* being RECEIVED, RejectInquiry leaves it in state REJECTED without a
\* notification, and GetData leaves it as constructed.
C38_AbsentIdInserted ==
    [][(/\ lastOp'.op \in {"SendQuote", "RejectInquiry", "GetData"}
        /\ ~Has(inquirys, lastOp'.inquiryId)) =>
         LET id == lastOp'.inquiryId
             fabricated == Inquiry("", "", "BUY", 0, 0, "RECEIVED")
         IN /\ DOMAIN inquirys' = DOMAIN inquirys \cup {id}
            /\ \A other \in DOMAIN inquirys : inquirys'[other] = inquirys[other]
            /\ lastOp'.op = "SendQuote" =>
                 /\ inquirys'[id] = [fabricated EXCEPT !.price = lastOp'.price]
                 /\ Len(CallsAt(log', "HistoricalInquiryListener")) = 1
                 /\ CallsAt(log', "HistoricalInquiryListener")[1].data = inquirys'[id]
            /\ lastOp'.op = "RejectInquiry" =>
                 /\ inquirys'[id] = [fabricated EXCEPT !.state = "REJECTED"]
                 /\ log' = <<>>
            /\ lastOp'.op = "GetData" =>
                 /\ inquirys'[id] = fabricated
                 /\ log' = <<>>]_vars

\* SendQuote on I1 and RejectInquiry on I2, neither ever received: the
\* store holds a RECEIVED inquiry priced 99-000 and a REJECTED one, both
\* without identifier or product, and the listener was called once
C38_Witness ==
    /\ calls["HistoricalInquiryListener"] = 1
    /\ DOMAIN inquirys = {"I1", "I2"}
    /\ inquirys["I1"] = Inquiry("", "", "BUY", 0, BasePrice, "RECEIVED")
    /\ inquirys["I2"] = Inquiry("", "", "BUY", 0, 0, "REJECTED")
    /\ lastOp.op \in {"SendQuote", "RejectInquiry"}

-----------------------------------------------------------------------------
(* InquiryService::OnMessage: the calls one record causes *)

\* the calls of OnMessage and of Publish that the last record caused
OnMessageCalls == SelectSeq(lastOp.entries, LAMBDA e : e.call = "OnMessage")
PublishCalls == SelectSeq(lastOp.entries, LAMBDA e : e.call = "Publish")

\* the states in which OnMessage was entered from inside another OnMessage
ReentryStates ==
    [i \in 1..(Len(OnMessageCalls) - 1) |-> OnMessageCalls[i + 1].state]

\* C39: OnMessage returns for a record in any state after finitely many
\* calls: Publish is called at most once, from the outermost OnMessage of a
\* RECEIVED record, and enters OnMessage again with the inquiry QUOTED and
\* then DONE; no other call enters OnMessage or Publish; so at most two
\* OnMessage frames are on the stack and the listener is called once per
\* OnMessage call, at most 3 times.
C39_OnMessageNesting ==
    lastOp.op = "InquiryRecord" =>
        /\ OnMessageCalls[1] = [call |-> "OnMessage", state |-> lastOp.state, depth |-> 1]
        /\ \A i \in 1..Len(lastOp.entries) : lastOp.entries[i].depth <= 2
        /\ \A i \in 1..Len(PublishCalls) :
             PublishCalls[i].state = "RECEIVED" /\ PublishCalls[i].depth = 1
        /\ IF lastOp.state = "RECEIVED"
           THEN /\ Len(PublishCalls) = 1
                /\ ReentryStates = <<"QUOTED", "DONE">>
                /\ \A i \in 2..3 : OnMessageCalls[i].depth = 2
           ELSE /\ PublishCalls = <<>>
                /\ ReentryStates = <<>>
        /\ Len(InquiryEvents) = Len(OnMessageCalls)
        /\ Len(InquiryEvents) <= 3

\* a RECEIVED record after a record in each of two other states: three
\* OnMessage calls, two of them nested, and three listener calls
C39_Witness ==
    /\ lastOp.op = "InquiryRecord"
    /\ lastOp.state = "RECEIVED"
    /\ Len(OnMessageCalls) = 3
    /\ OnMessageCalls[3].depth = 2
    /\ Len(InquiryEvents) = 3
    /\ calls["HistoricalInquiryListener"] = 5
    /\ steps = 3

=============================================================================
